---- MODULE Spec2Model ----
(***************************************************************************)
(* Battery test bench: the per-station phase controller                    *)
(* (services/test_controller.py) and the task execution orchestrator       *)
(* (services/task_orchestrator.py) with its callers.                       *)
(***************************************************************************)
EXTENDS Integers, Sequences, FiniteSets, TLC

(***************************************************************************)
(* Bounds                                                                  *)
(***************************************************************************)
\* iterations a phase loop of the controller runs before its end time
MaxIters == 2

(***************************************************************************)
(* Part 1: StationTestController                                           *)
(***************************************************************************)
VARIABLES
    pc,               \* position of run_automated_capacity_test
    sub,              \* position inside the phase method: setup / loop / exit
    elapsed,          \* loop iterations done in the current phase method
    current_phase,    \* self.current_phase
    abort_requested,  \* self.abort_requested
    abort_reason,     \* self.abort_reason
    abort_calls,      \* _request_abort calls in this run (2: two or more)
    safety_task,      \* the background _safety_monitor_loop is alive
    params,           \* TestParameters of the run
    cap_result,       \* capacity test: "none", "passed" or "failed"
    fast_result,      \* fast discharge: "none", "passed" or "failed"
    result,           \* the TestResult returned, or NoResult
    psu_output,       \* supply output state
    load_input,       \* load input state
    shutdown_calls,   \* devices _safe_shutdown has called in this run
    ah_integrated,    \* _discharge_capacity_test: integral of I dt (mA x ticks)
    voltage_check_done,   \* _discharge_capacity_test local
    checkpoint_mv,        \* voltage sampled at the checkpoint (0: not sampled)
    voltage_check_passed, \* _discharge_capacity_test local
    overTempInCap,    \* a cap_discharging sample exceeded discharge_temp_max_c
    disableThrew,     \* a disable call raised in this run
    scpi_errors       \* the error queue of the supply and of the load holds
                      \* an error

tcVars == <<pc, sub, elapsed, current_phase, abort_requested, abort_reason,
           abort_calls,
            safety_task, params, cap_result, fast_result, result,
            psu_output, load_input, shutdown_calls, ah_integrated,
            voltage_check_done, voltage_check_passed, checkpoint_mv, overTempInCap,
            disableThrew, scpi_errors>>

\* state of the orchestrator, its callers and the station hardware it drives
VARIABLES
    request,        \* the StartJobRequest for each job: its station and the
                    \* ResolvedProcedure its work order item resolves to
    work_jobs,      \* work_jobs rows
    job_tasks,      \* job_tasks rows of each job, indexed by task_number
    test_reports,   \* test_reports rows of each job: their overall_result
    running_jobs,   \* TaskExecutionOrchestrator._running_jobs
    orch,           \* the _run_job coroutine of each job: position and locals
    psu_on,         \* supply output of each station
    load_on,        \* load input of each station
    station_state,  \* StationStateMachine.state of each station
    station_data,   \* I2CPoller.station_data: what the last poll of each station read
    abort_seen,     \* abort_job was called while the job was executing a step
    stop_seen,      \* stop_station or an emergency stop switched the station's
                    \* outputs off and no start was requested since
    viol_age,       \* samples since a sample violated the step's limit
    op_count,       \* calls of the operator's API made so far
    events          \* broadcasts the orchestrator has issued, by job

orchVars == <<request, work_jobs, job_tasks, test_reports, running_jobs, orch,
              psu_on,
              load_on, station_state, station_data, stop_seen, abort_seen, viol_age, op_count,
              events>>

\* state around the dock EEPROM codec (services/eeprom_manager.py)
VARIABLES
    i2c_data,       \* i2c_poller.get_station_data(station_id), or NoData
    config,         \* the BatteryConfig an operator hands to write_battery_config
    read_ret,       \* what read_battery_config returned, or NotCalled
    read_log,       \* what that call logged
    write_ret,      \* <<what write_battery_config returned>>, <<>> before
    write_arg       \* the block it handed to i2c_poller.write_eeprom

eepromVars == <<i2c_data, config, read_ret, read_log, write_ret, write_arg>>

\* state around one call of ConditionEvaluator.evaluate
VARIABLES
    condition,      \* the condition columns of the row being evaluated
    context,        \* the battery context dict
    eval_ret        \* <<what evaluate answered>>, <<>> before the call

condVars == <<condition, context, eval_ret>>

\* state around resolve_procedure and create_tasks_for_job
VARIABLES
    tech_pub_sections,  \* tech_pub_sections rows of the tech pub, by id
    procedure_steps,    \* procedure_steps rows, by id
    age_months,         \* work_order_items.age_months of the item
    procedure,          \* the sections of the ResolvedProcedure returned
    lastrowid,          \* the rowid of the last INSERT into job_tasks
    created_tasks,      \* the rows create_tasks_for_job inserted, in order
    task_ids            \* the list it returned, NotReturned before

procVars == <<tech_pub_sections, procedure_steps, age_months, procedure,
              lastrowid, created_tasks, task_ids>>

\* state around build_test_params_from_eeprom and the post-charge rest
VARIABLES
    model_config,        \* the BatteryConfig fields the age rule reads
    battery_age_months,  \* the age of the unit under test
    built_params,        \* the TestParameters built, or NotBuilt
    rest_sec             \* <<seconds the post-charge rest lasted>>, <<>> before

restVars == <<model_config, battery_age_months, built_params, rest_sec>>

\* state of the station manager's loop, the docks and the WebSocket clients
VARIABLES
    dock,                \* what the XIAO module of each station reports
    battery_config,      \* StationStateMachine.battery_config of each station
    manager_running,     \* the start_manager coroutine has not ended
    active_connections   \* api/ws.py: how many clients are connected

mgrVars == <<dock, battery_config, manager_running, active_connections>>

svcVars == <<eepromVars, condVars, procVars, restVars, mgrVars>>

\* TestPhase
IDLE == "idle"
PRE_DISCHARGE == "pre_discharge"
PRE_REST == "pre_rest"
RECONDITIONING == "reconditioning"
CHARGING == "charging"
POST_CHARGE_REST == "post_charge_rest"
CAP_DISCHARGING == "cap_discharging"
FAST_DISCHARGE_REST == "fast_discharge_rest"
FAST_DISCHARGING == "fast_discharging"
POST_PARTIAL_CHARGE == "post_partial_charge"
COMPLETE_PASS == "complete_pass"
COMPLETE_FAIL == "complete_fail"
ABORTED == "aborted"

TerminalPhases == {IDLE, COMPLETE_PASS, COMPLETE_FAIL, ABORTED}

\* self.psu and self.load
Instruments == {"psu", "load"}

NoResult == [phase |-> "none", success |-> FALSE, abort_reason |-> "none"]

\* the value _read_temperature returns when the I2C read fails
TempReadFailed == -999

\* sampled temperatures (deg C) and voltages (mV)
TempSamples == {25, 50, 60, TempReadFailed}
VoltSamples == {4400, 5000, 5100, 5600}
\* sampled discharge currents, as the mAh one pass of the loop integrates
CurrentSamples == {1900, 1970}

\* TestParameters: the fields the phase sequence and the safety checks read
TestParameters ==
    [needs_reconditioning : BOOLEAN,
     fast_discharge_enabled : BOOLEAN,
     post_charge_enabled : BOOLEAN,
     charge_temp_max_c : {45},
     discharge_temp_max_c : {55},
     cap_test_end_voltage_mv : {5000},
     fast_discharge_end_voltage_mv : {5000},
     pre_discharge_end_voltage_mv : {5000},
     absolute_min_voltage_mv : {4500, 5200},
     cap_test_pass_min_minutes : {0, 2},
     cap_test_pass_min_capacity_pct : {0, 85},
     nominal_capacity_mah : {2300},
     cap_test_voltage_check_time_min : {0, 1},
     cap_test_voltage_check_min_mv : {5200},
     fast_discharge_pass_min_minutes : {0, 2}]

InitTC ==
    /\ pc = "idle"
    /\ sub = "none"
    /\ elapsed = 0
    /\ current_phase = IDLE
    /\ abort_requested = FALSE
    /\ abort_reason = "none"
    /\ abort_calls = 0
    /\ safety_task = FALSE
    /\ params \in TestParameters
    /\ cap_result = "none"
    /\ fast_result = "none"
    /\ result = NoResult
    /\ psu_output = FALSE
    /\ load_input = FALSE
    /\ shutdown_calls = {}
    /\ ah_integrated = 0
    /\ voltage_check_done = FALSE
    /\ checkpoint_mv = 0
    /\ voltage_check_passed = TRUE
    /\ overTempInCap = FALSE
    /\ disableThrew = FALSE
    /\ scpi_errors = [d \in Instruments |-> FALSE]

\* except SafetyAbortError: _set_phase(ABORTED), build the TestResult
ExceptSafetyAbort(reason) ==
    /\ current_phase' = ABORTED
    /\ result' = [phase |-> ABORTED, success |-> FALSE, abort_reason |-> reason]
    /\ pc' = "finally"
    /\ sub' = "none"

\* except Exception: _set_phase(COMPLETE_FAIL), build the TestResult
ExceptException ==
    /\ current_phase' = COMPLETE_FAIL
    /\ result' = [phase |-> COMPLETE_FAIL, success |-> FALSE,
                  abort_reason |-> "none"]
    /\ pc' = "finally"
    /\ sub' = "none"

\* _check_abort: the message of the SafetyAbortError it raises
check_abort_reason == IF abort_reason = "none" THEN "Abort requested"
                      ELSE abort_reason

\* the phase that follows `p` in run_automated_capacity_test
NextPhase(p) ==
    CASE p = "pre_discharge" -> "pre_rest"
      [] p = "pre_rest" -> IF params.needs_reconditioning
                           THEN "reconditioning" ELSE "charging"
      [] p = "reconditioning" -> "charging"
      [] p = "charging" -> "post_charge_rest"
      [] p = "post_charge_rest" -> "cap_discharging"
      [] p = "cap_discharging" ->
            IF params.fast_discharge_enabled THEN "fd_charging"
            ELSE IF params.post_charge_enabled THEN "post_partial_charge"
            ELSE "evaluate"
      [] p = "fd_charging" -> "fast_discharge_rest"
      [] p = "fast_discharge_rest" -> "fast_discharging"
      [] p = "fast_discharging" ->
            IF params.post_charge_enabled THEN "post_partial_charge"
            ELSE "evaluate"
      [] p = "post_partial_charge" -> "evaluate"

\* the TestPhase _set_phase is called with on entering position `p`
PhaseOf(p) ==
    CASE p = "fd_charging" -> CHARGING
      [] p = "evaluate" -> current_phase
      [] OTHER -> p

ChargePcs == {"reconditioning", "charging", "fd_charging", "post_partial_charge"}
RestPcs == {"pre_rest", "post_charge_rest", "fast_discharge_rest"}
DischargePcs == {"pre_discharge", "cap_discharging", "fast_discharging"}

\* the phase method returned: the _check_abort that follows it (none after
\* the post partial charge), then _set_phase of the next phase
PhaseReturn ==
    IF pc # "post_partial_charge" /\ abort_requested
    THEN ExceptSafetyAbort(check_abort_reason)
    ELSE /\ pc' = NextPhase(pc)
         /\ sub' = IF NextPhase(pc) \in RestPcs THEN "loop"
                   ELSE IF NextPhase(pc) = "evaluate" THEN "none" ELSE "setup"
         /\ current_phase' = PhaseOf(NextPhase(pc))
         /\ UNCHANGED result

\* run_automated_capacity_test up to the first phase: reset the run state,
\* start the safety monitor, _set_phase(PRE_DISCHARGE)
StartRun ==
    /\ UNCHANGED <<orchVars, svcVars, scpi_errors>>
    /\ pc \in {"idle", "returned"}
    /\ abort_requested' = FALSE
    /\ abort_reason' = "none"
    /\ abort_calls' = 0
    /\ safety_task' = TRUE
    /\ cap_result' = "none"
    /\ fast_result' = "none"
    /\ result' = NoResult
    /\ shutdown_calls' = {}
    /\ overTempInCap' = FALSE
    /\ disableThrew' = FALSE
    /\ ah_integrated' = 0
    /\ voltage_check_done' = FALSE
    /\ checkpoint_mv' = 0
    /\ voltage_check_passed' = TRUE
    /\ current_phase' = PRE_DISCHARGE
    /\ pc' = "pre_discharge"
    /\ sub' = "setup"
    /\ elapsed' = 0
    /\ UNCHANGED <<params, psu_output, load_input>>

\* _charge_battery: psu.set_voltage, set_current, output_on
ChargeSetup ==
    /\ UNCHANGED <<orchVars, svcVars, scpi_errors>>
    /\ pc \in ChargePcs /\ sub = "setup"
    /\ \/ /\ psu_output' = TRUE
          /\ sub' = "loop"
          /\ elapsed' = 0
          /\ UNCHANGED <<pc, current_phase, result>>
       \/ /\ ExceptException          \* a supply command raised
          /\ UNCHANGED <<psu_output, elapsed>>
    /\ UNCHANGED <<abort_requested, abort_reason, abort_calls, safety_task,
                   params,
                   cap_result, fast_result, load_input, shutdown_calls,
                   ah_integrated, voltage_check_done, voltage_check_passed, checkpoint_mv,
                   overTempInCap, disableThrew>>

\* _charge_battery: one pass of the monitoring loop
ChargeIter ==
    /\ UNCHANGED <<orchVars, svcVars, scpi_errors>>
    /\ pc \in ChargePcs /\ sub = "loop"
    /\ IF abort_requested
       THEN /\ ExceptSafetyAbort(check_abort_reason)
            /\ UNCHANGED <<psu_output, elapsed, disableThrew>>
       ELSE \/ /\ ExceptException     \* measure_voltage/current raised
               /\ UNCHANGED <<psu_output, elapsed, disableThrew>>
            \/ \E temp \in TempSamples :
                 IF temp > params.charge_temp_max_c
                 THEN \/ /\ psu_output' = FALSE
                         /\ ExceptSafetyAbort("Charge temperature exceeded")
                         /\ UNCHANGED <<elapsed, disableThrew>>
                      \/ /\ disableThrew' = TRUE   \* output_off raised
                         /\ ExceptException
                         /\ UNCHANGED <<psu_output, elapsed>>
                 ELSE /\ elapsed' = elapsed + 1
                      /\ sub' = IF elapsed + 1 >= MaxIters THEN "exit" ELSE "loop"
                      /\ UNCHANGED <<pc, current_phase, result, psu_output,
                                     disableThrew>>
    /\ UNCHANGED <<abort_requested, abort_reason, abort_calls, safety_task,
                   params,
                   cap_result, fast_result, load_input, shutdown_calls,
                   ah_integrated, voltage_check_done, voltage_check_passed, checkpoint_mv,
                   overTempInCap>>

\* _charge_battery after the loop: psu.output_off, then back in the caller
ChargeExit ==
    /\ UNCHANGED <<orchVars, svcVars, scpi_errors>>
    /\ pc \in ChargePcs /\ sub = "exit"
    /\ \/ /\ psu_output' = FALSE
          /\ PhaseReturn
          /\ UNCHANGED disableThrew
       \/ /\ disableThrew' = TRUE
          /\ ExceptException
          /\ UNCHANGED psu_output
    /\ elapsed' = 0
    /\ UNCHANGED <<abort_requested, abort_reason, abort_calls, safety_task,
                   params,
                   cap_result, fast_result, load_input, shutdown_calls,
                   ah_integrated, voltage_check_done, voltage_check_passed, checkpoint_mv,
                   overTempInCap>>

\* _rest_period_sec: one pass of the loop
RestIter ==
    /\ UNCHANGED <<orchVars, svcVars, scpi_errors>>
    /\ pc \in RestPcs /\ sub = "loop"
    /\ IF abort_requested
       THEN /\ ExceptSafetyAbort(check_abort_reason)
            /\ UNCHANGED elapsed
       ELSE /\ elapsed' = elapsed + 1
            /\ sub' = IF elapsed + 1 >= MaxIters THEN "exit" ELSE "loop"
            /\ UNCHANGED <<pc, current_phase, result>>
    /\ UNCHANGED <<abort_requested, abort_reason, abort_calls, safety_task,
                   params,
                   cap_result, fast_result, psu_output, load_input,
                   shutdown_calls, ah_integrated, voltage_check_done,
                   voltage_check_passed, checkpoint_mv, overTempInCap, disableThrew>>

\* _rest_period_sec returned
RestExit ==
    /\ UNCHANGED <<orchVars, svcVars, scpi_errors>>
    /\ pc \in RestPcs /\ sub = "exit"
    /\ PhaseReturn
    /\ elapsed' = 0
    /\ UNCHANGED <<abort_requested, abort_reason, abort_calls, safety_task,
                   params,
                   cap_result, fast_result, psu_output, load_input,
                   shutdown_calls, ah_integrated, voltage_check_done,
                   voltage_check_passed, checkpoint_mv, overTempInCap, disableThrew>>

\* the load commands that open a discharge: set_mode, set_current,
\* set_voltage_protection, input_on
DischargeSetup ==
    /\ UNCHANGED <<orchVars, svcVars, scpi_errors>>
    /\ pc \in DischargePcs /\ sub = "setup"
    /\ \/ /\ load_input' = TRUE
          /\ sub' = "loop"
          /\ elapsed' = 0
          /\ UNCHANGED <<pc, current_phase, result>>
       \/ /\ ExceptException          \* a load command raised
          /\ UNCHANGED <<load_input, elapsed>>
    /\ ah_integrated' = 0
    /\ voltage_check_done' = FALSE
    /\ checkpoint_mv' = 0
    /\ voltage_check_passed' = TRUE
    /\ UNCHANGED <<abort_requested, abort_reason, abort_calls, safety_task,
                   params,
                   cap_result, fast_result, psu_output, shutdown_calls,
                   overTempInCap, disableThrew>>

\* a safety branch of a discharge loop: load.input_off, raise SafetyAbortError
DischargeSafetyAbort(reason) ==
    \/ /\ load_input' = FALSE
       /\ ExceptSafetyAbort(reason)
       /\ UNCHANGED disableThrew
    \/ /\ disableThrew' = TRUE        \* input_off raised
       /\ ExceptException
       /\ UNCHANGED load_input

\* _discharge_to_floor: one pass of the loop
DischargeToFloorIter ==
    /\ UNCHANGED <<orchVars, svcVars, scpi_errors>>
    /\ pc = "pre_discharge" /\ sub = "loop"
    /\ IF abort_requested
       THEN /\ ExceptSafetyAbort(check_abort_reason)
            /\ UNCHANGED <<load_input, elapsed, disableThrew>>
       ELSE \/ /\ ExceptException     \* measure_voltage raised
               /\ UNCHANGED <<load_input, elapsed, disableThrew>>
            \/ \E v \in VoltSamples, temp \in TempSamples :
                 IF v <= params.pre_discharge_end_voltage_mv
                 THEN /\ sub' = "exit"
                      /\ UNCHANGED <<pc, current_phase, result, load_input,
                                     elapsed, disableThrew>>
                 ELSE IF temp > params.discharge_temp_max_c
                 THEN /\ DischargeSafetyAbort("Pre-discharge temp exceeded")
                      /\ UNCHANGED elapsed
                 ELSE /\ elapsed' = elapsed + 1
                      /\ sub' = IF elapsed + 1 >= MaxIters THEN "exit" ELSE "loop"
                      /\ UNCHANGED <<pc, current_phase, result, load_input,
                                     disableThrew>>
    /\ UNCHANGED <<abort_requested, abort_reason, abort_calls, safety_task,
                   params,
                   cap_result, fast_result, psu_output, shutdown_calls,
                   ah_integrated, voltage_check_done, voltage_check_passed, checkpoint_mv,
                   overTempInCap>>

\* _discharge_capacity_test: the message of the SafetyAbortError raised for
\* a sample below absolute_min_voltage_mv
AbsoluteMinReason(floor_mv, v_mv) ==
    "Voltage below absolute minimum " \o ToString(floor_mv) \o "mV: "
       \o ToString(v_mv) \o "mV"

\* _discharge_capacity_test: one pass of the loop
CapDischargeIter ==
    /\ UNCHANGED <<orchVars, svcVars, scpi_errors>>
    /\ pc = "cap_discharging" /\ sub = "loop"
    /\ IF abort_requested
       THEN /\ ExceptSafetyAbort(check_abort_reason)
            /\ UNCHANGED <<load_input, elapsed, disableThrew, ah_integrated,
                           voltage_check_done, voltage_check_passed, checkpoint_mv,
                           overTempInCap>>
       ELSE \/ /\ ExceptException     \* measure_voltage/current raised
               /\ UNCHANGED <<load_input, elapsed, disableThrew, ah_integrated,
                              voltage_check_done, voltage_check_passed, checkpoint_mv,
                              overTempInCap>>
            \/ \E v \in VoltSamples, i \in CurrentSamples, temp \in TempSamples :
                 LET check == /\ ~voltage_check_done
                              /\ params.cap_test_voltage_check_time_min > 0
                              /\ elapsed >= params.cap_test_voltage_check_time_min
                 IN
                 /\ overTempInCap' =
                        (overTempInCap \/ temp > params.discharge_temp_max_c)
                 /\ voltage_check_done' = (voltage_check_done \/ check)
                 /\ checkpoint_mv' = IF check THEN v ELSE checkpoint_mv
                 /\ voltage_check_passed' =
                        IF check /\ v < params.cap_test_voltage_check_min_mv
                        THEN FALSE ELSE voltage_check_passed
                 /\ IF v <= params.cap_test_end_voltage_mv
                    THEN /\ sub' = "exit"
                         /\ UNCHANGED <<pc, current_phase, result, load_input,
                                        elapsed, disableThrew, ah_integrated>>
                    ELSE IF temp > params.discharge_temp_max_c
                    THEN /\ DischargeSafetyAbort("Discharge temperature exceeded")
                         /\ UNCHANGED <<elapsed, ah_integrated>>
                    ELSE IF v < params.absolute_min_voltage_mv
                    THEN /\ DischargeSafetyAbort(
                              AbsoluteMinReason(params.absolute_min_voltage_mv, v))
                         /\ UNCHANGED <<elapsed, ah_integrated>>
                    ELSE /\ ah_integrated' = ah_integrated
                                + i * (IF elapsed = 0 THEN 0 ELSE 1)
                         /\ elapsed' = elapsed + 1
                         /\ sub' = IF elapsed + 1 >= MaxIters
                                   THEN "exit" ELSE "loop"
                         /\ UNCHANGED <<pc, current_phase, result, load_input,
                                        disableThrew>>
    /\ UNCHANGED <<abort_requested, abort_reason, abort_calls, safety_task,
                   params,
                   cap_result, fast_result, psu_output, shutdown_calls>>

\* the pass/fail evaluation without its capacity check
CapPassed_mut(duration_min, capacity_mah, vcheck_passed) ==
    /\ ~(/\ params.cap_test_pass_min_minutes > 0
         /\ duration_min < params.cap_test_pass_min_minutes)
    /\ vcheck_passed

\* _discharge_capacity_test: the pass/fail evaluation after the loop
CapPassed(duration_min, capacity_mah, vcheck_passed) ==
    /\ ~(/\ params.cap_test_pass_min_minutes > 0
         /\ duration_min < params.cap_test_pass_min_minutes)
    /\ ~(/\ params.cap_test_pass_min_capacity_pct > 0
         /\ params.nominal_capacity_mah > 0
         /\ capacity_mah * 100
              < params.cap_test_pass_min_capacity_pct * params.nominal_capacity_mah)
    /\ vcheck_passed

\* _fast_discharge_test: one pass of the loop
FastDischargeIter ==
    /\ UNCHANGED <<orchVars, svcVars, scpi_errors>>
    /\ pc = "fast_discharging" /\ sub = "loop"
    /\ IF abort_requested
       THEN /\ ExceptSafetyAbort(check_abort_reason)
            /\ UNCHANGED <<load_input, elapsed, disableThrew, ah_integrated>>
       ELSE \/ /\ ExceptException     \* measure_voltage/current raised
               /\ UNCHANGED <<load_input, elapsed, disableThrew, ah_integrated>>
            \/ \E v \in VoltSamples, i \in CurrentSamples, temp \in TempSamples :
                 IF v <= params.fast_discharge_end_voltage_mv
                 THEN /\ sub' = "exit"
                      /\ UNCHANGED <<pc, current_phase, result, load_input,
                                     elapsed, disableThrew, ah_integrated>>
                 ELSE IF temp > params.discharge_temp_max_c
                 THEN /\ DischargeSafetyAbort("Fast discharge temp exceeded")
                      /\ UNCHANGED <<elapsed, ah_integrated>>
                 ELSE IF v < params.absolute_min_voltage_mv
                 THEN /\ DischargeSafetyAbort(
                           "Voltage below absolute minimum: "
                              \o ToString(v) \o "mV")
                      /\ UNCHANGED <<elapsed, ah_integrated>>
                 ELSE /\ ah_integrated' = ah_integrated
                             + i * (IF elapsed = 0 THEN 0 ELSE 1)
                      /\ elapsed' = elapsed + 1
                      /\ sub' = IF elapsed + 1 >= MaxIters THEN "exit" ELSE "loop"
                      /\ UNCHANGED <<pc, current_phase, result, load_input,
                                     disableThrew>>
    /\ UNCHANGED <<abort_requested, abort_reason, abort_calls, safety_task,
                   params,
                   cap_result, fast_result, psu_output, shutdown_calls,
                   voltage_check_done, voltage_check_passed, checkpoint_mv, overTempInCap>>

\* DischargeExit with a capacity discharge that ran to its maximum duration
\* treated as a safety abort instead of a stop
DischargeExit_mut ==
    /\ UNCHANGED <<orchVars, svcVars, scpi_errors>>
    /\ pc \in DischargePcs /\ sub = "exit"
    /\ \/ /\ load_input' = FALSE
          /\ cap_result' =
               IF pc = "cap_discharging"
               THEN IF CapPassed(elapsed, ah_integrated, voltage_check_passed)
                    THEN "passed" ELSE "failed"
               ELSE cap_result
          /\ fast_result' =
               IF pc = "fast_discharging"
               THEN IF /\ params.fast_discharge_pass_min_minutes > 0
                       /\ elapsed < params.fast_discharge_pass_min_minutes
                    THEN "failed" ELSE "passed"
               ELSE fast_result
          /\ IF pc = "cap_discharging" /\ elapsed >= MaxIters
             THEN ExceptSafetyAbort("Capacity test exceeded max duration")
             ELSE PhaseReturn
          /\ UNCHANGED disableThrew
       \/ /\ disableThrew' = TRUE     \* input_off raised
          /\ ExceptException
          /\ UNCHANGED <<load_input, cap_result, fast_result>>
    /\ elapsed' = 0
    /\ UNCHANGED <<abort_requested, abort_reason, abort_calls, safety_task,
                   params,
                   psu_output, shutdown_calls, ah_integrated,
                   voltage_check_done, voltage_check_passed, checkpoint_mv, overTempInCap>>

\* after a discharge loop: load.input_off, the CapacityResult, and back in
\* run_automated_capacity_test
DischargeExit ==
    /\ UNCHANGED <<orchVars, svcVars, scpi_errors>>
    /\ pc \in DischargePcs /\ sub = "exit"
    /\ \/ /\ load_input' = FALSE
          /\ cap_result' =
               IF pc = "cap_discharging"
               THEN IF CapPassed(elapsed, ah_integrated, voltage_check_passed)
                    THEN "passed" ELSE "failed"
               ELSE cap_result
          /\ fast_result' =
               IF pc = "fast_discharging"
               THEN IF /\ params.fast_discharge_pass_min_minutes > 0
                       /\ elapsed < params.fast_discharge_pass_min_minutes
                    THEN "failed" ELSE "passed"
               ELSE fast_result
          /\ PhaseReturn
          /\ UNCHANGED disableThrew
       \/ /\ disableThrew' = TRUE     \* input_off raised
          /\ ExceptException
          /\ UNCHANGED <<load_input, cap_result, fast_result>>
    /\ elapsed' = 0
    /\ UNCHANGED <<abort_requested, abort_reason, abort_calls, safety_task,
                   params,
                   psu_output, shutdown_calls, ah_integrated,
                   voltage_check_done, voltage_check_passed, checkpoint_mv, overTempInCap>>

\* run_automated_capacity_test: EVALUATE PASS/FAIL and the TestResult
Evaluate ==
    /\ UNCHANGED <<orchVars, svcVars, scpi_errors>>
    /\ pc = "evaluate"
    /\ LET overall_pass == cap_result # "failed" /\ fast_result # "failed"
           final_phase == IF overall_pass THEN COMPLETE_PASS ELSE COMPLETE_FAIL
       IN /\ current_phase' = final_phase
          /\ result' = [phase |-> final_phase, success |-> overall_pass,
                        abort_reason |-> "none"]
    /\ pc' = "finally"
    /\ UNCHANGED <<sub, elapsed, abort_requested, abort_reason, abort_calls,
                   safety_task,
                   params, cap_result, fast_result, psu_output, load_input,
                   shutdown_calls, ah_integrated, voltage_check_done,
                   voltage_check_passed, checkpoint_mv, overTempInCap, disableThrew>>

\* _safe_shutdown without the try around the supply's call: when it raises,
\* the load is not called
safe_shutdown_mut(psu_raised, load_raised) ==
    /\ psu_output' = (psu_output /\ psu_raised)
    /\ IF psu_raised
       THEN /\ shutdown_calls' = shutdown_calls \cup {"psu"}
            /\ UNCHANGED load_input
       ELSE /\ load_input' = (load_input /\ load_raised)
            /\ shutdown_calls' = shutdown_calls \cup {"psu", "load"}

\* _safe_shutdown with the outcome of its two calls (TRUE: the call raised)
safe_shutdown(psu_raised, load_raised) ==
    /\ psu_output' = (psu_output /\ psu_raised)
    /\ load_input' = (load_input /\ load_raised)
    /\ shutdown_calls' = shutdown_calls \cup {"psu", "load"}

\* the finally block of run_automated_capacity_test, and the return
Finally ==
    /\ UNCHANGED <<orchVars, svcVars, scpi_errors>>
    /\ pc = "finally"
    /\ \E psu_raised \in BOOLEAN, load_raised \in BOOLEAN :
         /\ safe_shutdown(psu_raised, load_raised)
         /\ disableThrew' = (disableThrew \/ psu_raised \/ load_raised)
    /\ safety_task' = FALSE
    /\ pc' = "returned"
    /\ UNCHANGED <<sub, elapsed, current_phase, abort_requested, abort_reason,
                   abort_calls,
                   params, cap_result, fast_result, result, ah_integrated,
                   voltage_check_done, voltage_check_passed, checkpoint_mv, overTempInCap>>

\* _request_abort without the test of abort_requested: a later request
\* overwrites the reason
request_abort_mut(reason) ==
    /\ abort_calls' = IF abort_calls < 2 THEN abort_calls + 1 ELSE 2
    /\ abort_requested' = TRUE
    /\ abort_reason' = reason

\* _request_abort
request_abort(reason) ==
    /\ abort_calls' = IF abort_calls < 2 THEN abort_calls + 1 ELSE 2
    /\ IF ~abort_requested
       THEN /\ abort_requested' = TRUE
            /\ abort_reason' = reason
       ELSE UNCHANGED <<abort_requested, abort_reason>>

\* one pass of _safety_monitor_loop; the run does not await between its last
\* phase and the final _set_phase, so no pass is scheduled there
SafetyMonitor ==
    /\ UNCHANGED <<orchVars, svcVars>>
    /\ safety_task
    /\ pc # "evaluate"
    /\ \E temp_valid \in BOOLEAN :
         IF ~temp_valid /\ current_phase \notin TerminalPhases
         THEN request_abort("Temperature sensor lost during test")
         ELSE UNCHANGED <<abort_requested, abort_reason, abort_calls>>
    \* psu.query_errors, load.query_errors: SYSTem:ERRor? takes the queued
    \* error out of the instrument; the loop logs it as a warning
    /\ scpi_errors' = [d \in Instruments |-> FALSE]
    /\ UNCHANGED <<pc, sub, elapsed, current_phase, safety_task, params,
                   cap_result, fast_result, result, psu_output, load_input,
                   shutdown_calls, ah_integrated, voltage_check_done,
                   voltage_check_passed, checkpoint_mv, overTempInCap, disableThrew>>

\* an instrument of the station puts an error into its error queue during a
\* run
InstrumentError(d) ==
    /\ UNCHANGED <<orchVars, svcVars>>
    /\ safety_task
    /\ ~scpi_errors[d]
    /\ scpi_errors' = [scpi_errors EXCEPT ![d] = TRUE]
    /\ UNCHANGED <<pc, sub, elapsed, current_phase, abort_requested,
                   abort_reason, abort_calls, safety_task, params,
                   cap_result, fast_result, result, psu_output, load_input,
                   shutdown_calls, ah_integrated, voltage_check_done,
                   voltage_check_passed, checkpoint_mv, overTempInCap,
                   disableThrew>>

\* request_stop, called from a handler on the same event loop
RequestStop ==
    /\ UNCHANGED <<orchVars, svcVars, scpi_errors>>
    /\ pc # "evaluate"
    /\ request_abort("User requested stop")
    /\ UNCHANGED <<pc, sub, elapsed, current_phase, safety_task, params,
                   cap_result, fast_result, result, psu_output, load_input,
                   shutdown_calls, ah_integrated, voltage_check_done,
                   voltage_check_passed, checkpoint_mv, overTempInCap, disableThrew>>

(***************************************************************************)
(* Part 2: TaskExecutionOrchestrator, start_job, skip_task, StationManager *)
(***************************************************************************)
Jobs == {1, 2}
Stations == {1, 2}

\* job_tasks.status
NonTerminal == {"pending", "in_progress", "awaiting_input"}
Terminal == {"completed", "failed", "skipped", "aborted"}

\* a resolved section and a resolved step
Section(id, type, steps) ==
    [section_id |-> id, section_type |-> type, steps |-> steps]
\* the JSON object {} of a params column
EmptyParams == [k \in {} |-> 0]

Step(id, type, auto, crit) ==
    [step_id |-> id, step_type |-> type, is_automated |-> auto,
     pass_criteria_type |-> crit, param_source |-> "fixed",
     param_overrides |-> EmptyParams]

\* the step with param_source previous_step
PreviousStep(step) == [step EXCEPT !.param_source = "previous_step"]

\* dict.update: the entries of b over those of a
DictUpdate(a, b) ==
    [k \in DOMAIN a \cup DOMAIN b |-> IF k \in DOMAIN b THEN b[k] ELSE a[k]]

\* JobTaskFactory._resolve_params with the empty eeprom_params start_job
\* passes; the steps of the model carry no measurement_key, and the
\* criteria value is the limit StepTempMax of the max_value criterion
resolve_params(step) ==
    LET type == step.step_type
        eeprom ==
            CASE type = "charge" ->
                   [k \in {"current_ma", "voltage_limit_mv", "duration_min",
                           "temp_max_c"} |-> IF k = "temp_max_c" THEN 45 ELSE 0]
              [] type = "discharge" ->
                   [k \in {"current_ma", "voltage_min_mv", "duration_min",
                           "temp_max_c"} |-> IF k = "temp_max_c" THEN 55 ELSE 0]
              [] type = "rest" -> [k \in {"duration_min"} |-> 60]
              [] type = "wait_temp" ->
                   [k \in {"temp_target_c", "timeout_min"} |->
                      IF k = "timeout_min" THEN 120 ELSE 35]
              [] OTHER -> EmptyParams
        base ==
            CASE step.param_source = "fixed" -> step.param_overrides
              [] step.param_source = "eeprom" ->
                   DictUpdate(eeprom, step.param_overrides)
              [] step.param_source = "profile" -> step.param_overrides
              [] step.param_source = "previous_step" ->
                   DictUpdate([k \in {"_resolve_at_runtime"} |-> TRUE],
                              step.param_overrides)
              [] OTHER -> EmptyParams
    IN  IF step.pass_criteria_type # "none"
        THEN DictUpdate(base, [k \in {"_pass_criteria_type"} |->
                                  step.pass_criteria_type])
        ELSE base

\* JobTaskFactory._insert_task
insert_task(section_id, step_id, number, parent, type, auto, crit, task_params) ==
    [section_id |-> section_id, step_id |-> step_id,
     task_number |-> number, parent_task_id |-> parent, step_type |-> type,
     is_automated |-> auto, pass_criteria_type |-> crit,
     params |-> task_params,
     status |-> "pending", step_result |-> "null", timed_out |-> FALSE]

\* create_tasks_for_job with the step loop's `task_number += 1` left out after
\* a parent task: the first step of a grouped section repeats its number
RECURSIVE create_tasks_for_job_mut(_, _)
create_tasks_for_job_mut(sections, n) ==
    IF sections = <<>> THEN <<>>
    ELSE LET section == Head(sections)
             grouped == /\ section.section_type \in {"manual_test", "inspection"}
                        /\ Len(section.steps) > 1
             parent == IF grouped
                       THEN <<insert_task(section.section_id, 0, n + 1, 0,
                                          "operator_action", FALSE,
                                          "none", EmptyParams)>>
                       ELSE <<>>
             rows == [k \in 1..Len(section.steps) |->
                        insert_task(section.section_id,
                                    section.steps[k].step_id,
                                    n + k,
                                    IF grouped THEN n + 1 ELSE 0,
                                    section.steps[k].step_type,
                                    section.steps[k].is_automated,
                                    section.steps[k].pass_criteria_type,
                                    resolve_params(section.steps[k]))]
         IN parent \o rows
              \o create_tasks_for_job_mut(Tail(sections), n + Len(section.steps))

\* create_tasks_for_job with a parent task for every manual_test or
\* inspection section that has a step, a single one included
RECURSIVE create_tasks_for_job_single_mut(_, _)
create_tasks_for_job_single_mut(sections, n) ==
    IF sections = <<>> THEN <<>>
    ELSE LET section == Head(sections)
             grouped == /\ section.section_type \in {"manual_test", "inspection"}
                        /\ Len(section.steps) >= 1
             parent == IF grouped
                       THEN <<insert_task(section.section_id, 0, n + 1, 0,
                                          "operator_action", FALSE,
                                          "none", EmptyParams)>>
                       ELSE <<>>
             base == n + Len(parent)
             rows == [k \in 1..Len(section.steps) |->
                        insert_task(section.section_id,
                                    section.steps[k].step_id,
                                    base + k,
                                    IF grouped THEN n + 1 ELSE 0,
                                    section.steps[k].step_type,
                                    section.steps[k].is_automated,
                                    section.steps[k].pass_criteria_type,
                                    resolve_params(section.steps[k]))]
         IN parent \o rows
              \o create_tasks_for_job_single_mut(Tail(sections), base + Len(section.steps))

\* JobTaskFactory.create_tasks_for_job: rows for `sections`, numbering after n
RECURSIVE create_tasks_for_job(_, _)
create_tasks_for_job(sections, n) ==
    IF sections = <<>> THEN <<>>
    ELSE LET section == Head(sections)
             grouped == /\ section.section_type \in {"manual_test", "inspection"}
                        /\ Len(section.steps) > 1
             parent == IF grouped
                       THEN <<insert_task(section.section_id, 0, n + 1, 0,
                                          "operator_action", FALSE,
                                          "none", EmptyParams)>>
                       ELSE <<>>
             base == n + Len(parent)
             rows == [k \in 1..Len(section.steps) |->
                        insert_task(section.section_id,
                                    section.steps[k].step_id,
                                    base + k,
                                    IF grouped THEN n + 1 ELSE 0,
                                    section.steps[k].step_type,
                                    section.steps[k].is_automated,
                                    section.steps[k].pass_criteria_type,
                                    resolve_params(section.steps[k]))]
         IN parent \o rows
              \o create_tasks_for_job(Tail(sections), base + Len(section.steps))

\* resolved procedures
NoProcedure == <<>>
ProcChargeManual ==
    <<Section(1, "automated_test", <<Step(1, "charge", TRUE, "max_value")>>),
      Section(2, "manual_test", <<Step(2, "measure_voltage", FALSE, "none")>>)>>
ProcGrouped ==
    <<Section(1, "inspection", <<Step(1, "visual_check", FALSE, "none"),
                                 Step(2, "measure_weight", FALSE, "none")>>),
      Section(2, "automated_test", <<Step(3, "rest", TRUE, "none")>>)>>
ProcDischarge ==
    <<Section(1, "automated_test", <<Step(1, "wait_temp", TRUE, "none"),
                                     Step(2, "discharge", TRUE, "none")>>)>>
ProcRest ==
    <<Section(1, "automated_test", <<Step(1, "rest", TRUE, "none")>>)>>
ProcCharge ==
    <<Section(1, "automated_test", <<Step(1, "charge", TRUE, "none")>>)>>
ProcFromPrevious ==
    <<Section(1, "automated_test",
              <<Step(1, "rest", TRUE, "none"),
                PreviousStep(Step(2, "charge", TRUE, "none"))>>)>>

\* a StartJobRequest: the station asked for and what the item resolves to
Request(s, proc) == [station_id |-> s, procedure |-> proc]
NoRequest == Request(1, NoProcedure)

\* the requests that the two work order items give rise to
Scenarios ==
    {<<Request(1, ProcChargeManual), NoRequest>>,
     <<Request(1, ProcGrouped), NoRequest>>,
     <<Request(1, ProcDischarge), NoRequest>>,
     <<Request(1, ProcFromPrevious), NoRequest>>,
     <<Request(1, ProcRest), Request(1, ProcCharge)>>,
     <<Request(1, ProcRest), Request(2, ProcCharge)>>}

NoJob == [status |-> "absent", overall_result |-> "null", station_id |-> 0,
          completed_at_writes |-> 0]

NoRun == [pc |-> "none", station |-> 0, cancel |-> FALSE, rows |-> <<>>,
          i |-> 0, children |-> <<>>, c |-> 0, polls |-> 0, elapsed |-> 0,
          temperature_max_c |-> 0, overall |-> "null",
          params |-> EmptyParams]

\* the state after construction, with the poller's cache holding data
OrchInitialWith(requests, data) ==
    /\ request = requests
    /\ op_count = 0
    /\ events = [j \in Jobs |-> {}]
    /\ work_jobs = [j \in Jobs |-> NoJob]
    /\ job_tasks = [j \in Jobs |-> <<>>]
    /\ test_reports = [j \in Jobs |-> <<>>]
    /\ running_jobs = {}
    /\ orch = [j \in Jobs |-> NoRun]
    /\ psu_on = [s \in Stations |-> FALSE]
    /\ load_on = [s \in Stations |-> FALSE]
    /\ station_state = [s \in Stations |-> "empty"]
    /\ station_data = data
    /\ stop_seen = [s \in Stations |-> FALSE]
    /\ abort_seen = [j \in Jobs |-> FALSE]
    /\ viol_age = [j \in Jobs |-> 0]

\* the poller has read a docked battery with a valid temperature at every
\* station; of what it read the orchestrator looks at temp_valid only
OrchInitial(requests) ==
    OrchInitialWith(requests, [s \in Stations |-> [temp_valid |-> TRUE]])

InitOrch == \E requests \in Scenarios : OrchInitial(requests)

\* bounds of the orchestrator model
MaxSamples == 2      \* passes of the _monitor_step loop in one step
MaxPolls == 2        \* polls of _wait_for_manual_completion before its timeout
\* calls of the operator's API and sensor losses in one behaviour
MaxOperatorActions == 2

\* samples of _monitor_step
MonitorTemps == {25, 60}
\* temp_max_c of a charge step (params.get("temp_max_c", 45.0))
StepTempMax == 45

\* positions of _run_job by the handler that an exception raised there reaches
Unstarted == {"created"}
InnerTry == {"charge_load_off", "charge_psu_on", "monitor", "charge_psu_off",
             "discharge", "discharge_set_load", "rest_psu_off",
             "rest_load_off", "auto_update"}
OuterHandlers == {"abort_psu", "abort_load", "abort_db",
                  "fail_psu", "fail_load", "fail_db"}
ManualWait == {"wait", "child_wait"}

Running(j) == orch[j].pc # "none"
Ready(j, p) == orch[j].pc = p /\ ~orch[j].cancel
Goto(j, p) == orch' = [orch EXCEPT ![j].pc = p]
\* the task _run_job is working on, and the child _process_child_tasks is on
CurTask(j) == orch[j].rows[orch[j].i]
CurChild(j) == orch[j].children[orch[j].c]

\* the asyncio task of job j ends: the done callback pops _running_jobs
Finish(j) ==
    /\ orch' = [orch EXCEPT ![j] = NoRun]
    /\ running_jobs' = running_jobs \ {j}

\* an exception other than CancelledError raised at the position of job j
Raise(j) ==
    IF orch[j].pc \in OuterHandlers
    THEN Finish(j)
    ELSE /\ Goto(j, "fail_psu")
         /\ UNCHANGED running_jobs

\* select the next top-level row of the for loop, or leave the loop
NextRow(j, run) ==
    IF run.i < Len(run.rows)
    THEN [run EXCEPT !.i = run.i + 1, !.pc = "mark_in_progress"]
    ELSE [run EXCEPT !.pc = "determine"]

\* TaskExecutionOrchestrator.execute_job
execute_job(j, s) ==
    IF j \in running_jobs
    THEN UNCHANGED <<running_jobs, orch, abort_seen, viol_age>>
    ELSE /\ running_jobs' = running_jobs \cup {j}
         /\ orch' = [orch EXCEPT ![j] = [NoRun EXCEPT !.pc = "created",
                                                       !.station = s]]
         /\ abort_seen' = [abort_seen EXCEPT ![j] = FALSE]
         /\ viol_age' = [viol_age EXCEPT ![j] = 0]

\* the stations that the requests of the scenario name
RequestedStations ==
    {request[j].station_id : j \in {k \in Jobs : request[k] # NoRequest}}

\* api/job_tasks.start_job: resolve, INSERT the work_job, create the tasks,
\* start the orchestrator
StartJob(j) ==
    /\ work_jobs[j].status = "absent"
    /\ request[j].procedure # NoProcedure
    /\ UNCHANGED test_reports
    /\ work_jobs' = [work_jobs EXCEPT ![j] =
                       [NoJob EXCEPT !.status = "pending",
                                     !.station_id = request[j].station_id]]
    /\ job_tasks' = [job_tasks EXCEPT ![j] =
                       create_tasks_for_job(request[j].procedure, 0)]
    /\ execute_job(j, request[j].station_id)
    /\ stop_seen' = [stop_seen EXCEPT ![request[j].station_id] = FALSE]
    /\ UNCHANGED <<request, events, op_count, psu_on, load_on, station_state,
                   station_data>>
    /\ UNCHANGED <<tcVars, svcVars>>

\* StationManager.stop_station; either disable may raise
StopStation(s) ==
    /\ op_count < MaxOperatorActions
    /\ op_count' = op_count + 1
    /\ \/ /\ psu_on' = [psu_on EXCEPT ![s] = FALSE]
          /\ \/ /\ load_on' = [load_on EXCEPT ![s] = FALSE]
                /\ station_state' =
                     IF station_state[s] = "running"
                     THEN [station_state EXCEPT ![s] = "ready"]
                     ELSE station_state
                /\ stop_seen' = [stop_seen EXCEPT ![s] = TRUE]
             \/ UNCHANGED <<load_on, station_state, stop_seen>>
       \/ UNCHANGED <<psu_on, load_on, station_state, stop_seen>>
    /\ UNCHANGED station_data
    /\ UNCHANGED <<request, events, work_jobs, test_reports, job_tasks, running_jobs, orch,
                   abort_seen, viol_age>>
    /\ UNCHANGED <<tcVars, svcVars>>

\* I2CPoller._poll_all_stations: the poll of station s that finds the
\* temp_valid flag of its status byte cleared; the sensor stays lost. The
\* loss is an event from outside and shares the budget of the operator's calls
PollStation(s) ==
    /\ op_count < MaxOperatorActions
    /\ op_count' = op_count + 1
    /\ station_data[s].temp_valid
    /\ station_data' = [station_data EXCEPT ![s].temp_valid = FALSE]
    /\ UNCHANGED <<request, events, work_jobs, test_reports, job_tasks,
                   running_jobs, orch, psu_on, load_on, station_state,
                   stop_seen, abort_seen, viol_age>>
    /\ UNCHANGED <<tcVars, svcVars>>

\* TaskExecutionOrchestrator.abort_job
AbortJob(j) ==
    /\ op_count < MaxOperatorActions
    /\ op_count' = op_count + 1
    /\ j \in running_jobs
    /\ orch' = [orch EXCEPT ![j].cancel = TRUE]
    /\ abort_seen' = [abort_seen EXCEPT ![j] =
                        @ \/ orch[j].pc \in InnerTry \cup ManualWait]
    /\ UNCHANGED <<request, events, work_jobs, test_reports, job_tasks, running_jobs, psu_on,
                   load_on, station_state, station_data, stop_seen, viol_age>>
    /\ UNCHANGED <<tcVars, svcVars>>

\* the CancelledError of a cancel request, raised at the await the coroutine
\* is suspended in
DeliverCancel(j) ==
    /\ Running(j) /\ orch[j].cancel
    /\ IF orch[j].pc \in Unstarted \cup OuterHandlers
       THEN Finish(j)
       ELSE /\ orch' = [orch EXCEPT ![j].cancel = FALSE,
                                    ![j].pc = IF orch[j].pc \in InnerTry
                                              THEN "ic_psu" ELSE "abort_psu"]
            /\ UNCHANGED running_jobs
    /\ UNCHANGED <<request, events, op_count, work_jobs, test_reports, job_tasks, psu_on, load_on,
                   station_state, station_data, stop_seen, abort_seen, viol_age>>
    /\ UNCHANGED <<tcVars, svcVars>>

\* TaskExecutionOrchestrator.submit_manual_result
SubmitManualResult(j, n, r) ==
    /\ n \in DOMAIN job_tasks[j]
    /\ op_count < MaxOperatorActions
    /\ op_count' = op_count + 1
    /\ job_tasks' = [job_tasks EXCEPT ![j][n].status = "completed",
                                      ![j][n].step_result = r]
    /\ UNCHANGED <<request, events, work_jobs, test_reports, running_jobs, orch, psu_on, load_on,
                   station_state, station_data, stop_seen, abort_seen, viol_age>>
    /\ UNCHANGED <<tcVars, svcVars>>

\* api/job_tasks.skip_task
SkipTask(j, n) ==
    /\ n \in DOMAIN job_tasks[j]
    /\ op_count < MaxOperatorActions
    /\ op_count' = op_count + 1
    /\ job_tasks[j][n].status \in {"pending", "awaiting_input"}
    /\ job_tasks' = [job_tasks EXCEPT ![j][n].status = "skipped",
                                      ![j][n].step_result = "skipped"]
    /\ UNCHANGED <<request, events, work_jobs, test_reports, running_jobs, orch, psu_on, load_on,
                   station_state, station_data, stop_seen, abort_seen, viol_age>>
    /\ UNCHANGED <<tcVars, svcVars>>


\* the variables a step of _run_job may leave alone
hwVars == <<psu_on, load_on>>
dbVars == <<work_jobs, job_tasks, test_reports>>
envVars == <<request, station_state, station_data, stop_seen, abort_seen, op_count, events>>

\* a broadcast of job j about task n
Broadcast(j, kind, n) ==
    events' = [events EXCEPT ![j] = @ \cup {<<kind, n>>}]

SetStatus(j, n, st) == job_tasks' = [job_tasks EXCEPT ![j][n].status = st]

Min(a, b) == IF a < b THEN a ELSE b

\* _run_job is scheduled: it runs up to its first await
Begin(j) ==
    /\ Ready(j, "created")
    /\ Goto(j, "start")
    /\ UNCHANGED <<running_jobs, viol_age>>
    /\ UNCHANGED <<hwVars, dbVars, envVars, tcVars, svcVars>>

\* _run_job: UPDATE work_jobs SET status = 'in_progress', then load the
\* top-level tasks that are pending or in_progress, by task_number
RunStart(j) ==
    /\ Ready(j, "start")
    /\ UNCHANGED test_reports
    /\ work_jobs' = [work_jobs EXCEPT ![j].status = "in_progress"]
    /\ LET rows == SelectSeq([n \in 1..Len(job_tasks[j]) |-> n],
                       LAMBDA n : /\ job_tasks[j][n].parent_task_id = 0
                                  /\ job_tasks[j][n].status
                                        \in {"pending", "in_progress"})
       IN orch' = [orch EXCEPT ![j] =
                     NextRow(j, [orch[j] EXCEPT !.rows = rows, !.i = 0])]
    /\ UNCHANGED <<job_tasks, running_jobs, viol_age>>
    /\ UNCHANGED <<hwVars, envVars, tcVars, svcVars>>

\* _run_job: _update_task_status(task_id, "in_progress") and
\* _broadcast_task_update; an automated task then calls
\* _execute_automated_step with json.loads(task_row["params"])
MarkInProgress(j) ==
    /\ Ready(j, "mark_in_progress")
    /\ SetStatus(j, CurTask(j), "in_progress")
    /\ orch' = IF job_tasks[j][CurTask(j)].is_automated
               THEN [orch EXCEPT ![j].pc = "auto_time",
                                 ![j].params = job_tasks[j][CurTask(j)].params]
               ELSE [orch EXCEPT ![j].pc = "mark_awaiting"]
    /\ UNCHANGED <<work_jobs, test_reports, running_jobs, viol_age>>
    /\ UNCHANGED <<hwVars, request, station_state, station_data, stop_seen, abort_seen, op_count,
                   tcVars, svcVars>>
    /\ Broadcast(j, "task_progress", CurTask(j))

\* _execute_automated_step: _update_task_time, then enter the try block
AutoTime(j) ==
    /\ Ready(j, "auto_time")
    /\ LET type == job_tasks[j][CurTask(j)].step_type
       IN Goto(j, CASE type = "charge" -> "charge_load_off"
                    [] type = "discharge" -> "discharge"
                    [] type \in {"rest", "wait_temp"} -> "rest_psu_off"
                    [] OTHER -> "auto_update")
    /\ UNCHANGED <<running_jobs, viol_age>>
    /\ UNCHANGED <<hwVars, dbVars, envVars, tcVars, svcVars>>

\* psu_controller.disable sending OUTP OFF to the supply of every station
\* instead of the one of the job's station
PsuDisable_mut(j, at, next) ==
    /\ Ready(j, at)
    /\ \/ /\ psu_on' = [s \in Stations |-> FALSE]
          /\ Goto(j, next)
          /\ UNCHANGED running_jobs
       \/ /\ Raise(j)
          /\ UNCHANGED psu_on
    /\ UNCHANGED <<load_on, viol_age>>
    /\ UNCHANGED <<dbVars, envVars, tcVars, svcVars>>

\* psu_controller.disable at position `at`; it may raise
PsuDisable(j, at, next) ==
    /\ Ready(j, at)
    /\ \/ /\ psu_on' = [psu_on EXCEPT ![orch[j].station] = FALSE]
          /\ Goto(j, next)
          /\ UNCHANGED running_jobs
       \/ /\ Raise(j)
          /\ UNCHANGED psu_on
    /\ UNCHANGED <<load_on, viol_age>>
    /\ UNCHANGED <<dbVars, envVars, tcVars, svcVars>>

\* load_controller.disable at position `at`; it may raise
LoadDisable(j, at, next) ==
    /\ Ready(j, at)
    /\ \/ /\ load_on' = [load_on EXCEPT ![orch[j].station] = FALSE]
          /\ Goto(j, next)
          /\ UNCHANGED running_jobs
       \/ /\ Raise(j)
          /\ UNCHANGED load_on
    /\ UNCHANGED <<psu_on, viol_age>>
    /\ UNCHANGED <<dbVars, envVars, tcVars, svcVars>>

\* the charge step enabling the load where it is to disable it
ChargeLoadOff_mut(j) ==
    /\ Ready(j, "charge_load_off")
    /\ load_on' = [load_on EXCEPT ![orch[j].station] = TRUE]
    /\ Goto(j, "charge_psu_on")
    /\ UNCHANGED <<psu_on, running_jobs, viol_age>>
    /\ UNCHANGED <<dbVars, envVars, tcVars, svcVars>>

\* charge step: load_controller.disable
ChargeLoadOff(j) == LoadDisable(j, "charge_load_off", "charge_psu_on")

\* charge step: psu_controller.set_output (VOLT, CURR, OUTP ON)
ChargePsuOn(j) ==
    /\ Ready(j, "charge_psu_on")
    /\ \/ /\ psu_on' = [psu_on EXCEPT ![orch[j].station] = TRUE]
          /\ orch' = [orch EXCEPT ![j].pc = "monitor", ![j].elapsed = 0,
                                  ![j].temperature_max_c = 0]
          /\ UNCHANGED running_jobs
       \/ /\ Raise(j)
          /\ UNCHANGED psu_on
    /\ UNCHANGED <<load_on, viol_age>>
    /\ UNCHANGED <<dbVars, envVars, tcVars, svcVars>>

\* charge step after the monitoring: psu_controller.disable
ChargePsuOff(j) == PsuDisable(j, "charge_psu_off", "auto_update")

\* discharge step: psu_controller.disable
DischargeStep(j) == PsuDisable(j, "discharge", "discharge_set_load")

\* discharge step: load_controller.set_load called with voltage_min_mv, a
\* keyword set_load does not take: TypeError before anything is sent
DischargeSetLoad(j) ==
    /\ Ready(j, "discharge_set_load")
    /\ Raise(j)
    /\ UNCHANGED <<hwVars, viol_age>>
    /\ UNCHANGED <<dbVars, envVars, tcVars, svcVars>>

\* rest and wait_temp steps: psu_controller.disable, load_controller.disable
RestPsuOff(j) == PsuDisable(j, "rest_psu_off", "rest_load_off")

RestLoadOff(j) ==
    /\ Ready(j, "rest_load_off")
    /\ \/ /\ load_on' = [load_on EXCEPT ![orch[j].station] = FALSE]
          /\ orch' = [orch EXCEPT ![j].pc = "monitor", ![j].elapsed = 0,
                                  ![j].temperature_max_c = 0]
          /\ UNCHANGED running_jobs
       \/ /\ Raise(j)
          /\ UNCHANGED load_on
    /\ UNCHANGED <<psu_on, viol_age>>
    /\ UNCHANGED <<dbVars, envVars, tcVars, svcVars>>

\* _monitor_step: one pass of the loop: sleep, read V/I/T, record the sample;
\* the poller caches temperature_c None while temp_valid is cleared, and the
\* sample then records 0 and leaves temperature_max_c alone
MonitorSample(j) ==
    /\ Ready(j, "monitor")
    /\ \E temp_c \in IF station_data[orch[j].station].temp_valid
                     THEN MonitorTemps ELSE {0} :
         LET type == job_tasks[j][CurTask(j)].step_type
             done == orch[j].elapsed + 1 >= MaxSamples
         IN /\ orch' = [orch EXCEPT
                  ![j].elapsed = @ + 1,
                  ![j].temperature_max_c = IF temp_c > @ THEN temp_c ELSE @,
                  ![j].pc = IF ~done THEN "monitor"
                            ELSE IF type = "charge" THEN "charge_psu_off"
                            ELSE "auto_update"]
            /\ viol_age' = [viol_age EXCEPT ![j] =
                  IF @ >= 1 THEN 2
                  ELSE IF type = "charge" /\ temp_c > StepTempMax THEN 1
                  ELSE 0]
    /\ UNCHANGED running_jobs
    /\ UNCHANGED <<hwVars, dbVars, envVars, tcVars, svcVars>>

\* _evaluate_pass_criteria
evaluate_pass_criteria(criteria_type, temperature_max_c) ==
    CASE criteria_type = "none" -> "pass"
      [] criteria_type = "max_value" ->
            IF temperature_max_c <= StepTempMax THEN "pass" ELSE "fail"
      [] OTHER -> "info"

\* _execute_automated_step: evaluate, UPDATE job_tasks SET status =
\* 'completed', step_result; then the next row of the for loop
AutoUpdate(j) ==
    /\ Ready(j, "auto_update")
    /\ job_tasks' = [job_tasks EXCEPT
          ![j][CurTask(j)].status = "completed",
          ![j][CurTask(j)].step_result =
              evaluate_pass_criteria(job_tasks[j][CurTask(j)].pass_criteria_type,
                                     orch[j].temperature_max_c)]
    /\ orch' = [orch EXCEPT ![j] = NextRow(j, orch[j])]
    /\ UNCHANGED <<work_jobs, test_reports, running_jobs, viol_age>>
    /\ UNCHANGED <<hwVars, envVars, tcVars, svcVars>>

\* _execute_automated_step, except CancelledError: disable the supply, the
\* load, mark the task aborted, re-raise
CancelPsuOff(j) == PsuDisable(j, "ic_psu", "ic_load")
CancelLoadOff(j) == LoadDisable(j, "ic_load", "ic_task")
CancelTaskAborted(j) ==
    /\ Ready(j, "ic_task")
    /\ SetStatus(j, CurTask(j), "aborted")
    /\ Goto(j, "abort_psu")
    /\ UNCHANGED <<work_jobs, test_reports, running_jobs, viol_age>>
    /\ UNCHANGED <<hwVars, envVars, tcVars, svcVars>>

\* _run_job, manual step: _update_task_status(task_id, "awaiting_input")
MarkAwaiting(j) ==
    /\ Ready(j, "mark_awaiting")
    /\ SetStatus(j, CurTask(j), "awaiting_input")
    /\ orch' = [orch EXCEPT ![j].pc = "wait", ![j].polls = 0]
    /\ UNCHANGED <<work_jobs, test_reports, running_jobs, viol_age>>
    /\ UNCHANGED <<hwVars, request, station_state, station_data, stop_seen, abort_seen, op_count,
                   tcVars, svcVars>>
    /\ Broadcast(j, "task_awaiting_input", CurTask(j))

\* _wait_for_manual_completion: one pass of the poll loop on task n; `done`
\* is where the caller continues, `timeout` the position after the loop
PollTask(j, at, n, done, timeout) ==
    /\ Ready(j, at)
    /\ orch' = [orch EXCEPT ![j] =
         IF job_tasks[j][n].status \in {"completed", "failed", "skipped"}
         THEN done
         ELSE IF orch[j].polls + 1 >= MaxPolls
         THEN [orch[j] EXCEPT !.pc = timeout]
         ELSE [orch[j] EXCEPT !.polls = @ + 1]]
    /\ UNCHANGED <<running_jobs, viol_age>>
    /\ UNCHANGED <<hwVars, dbVars, envVars, tcVars, svcVars>>

\* _wait_for_manual_completion after the loop: _update_task_status(failed)
TimeoutTask(j, at, n, done) ==
    /\ Ready(j, at)
    /\ job_tasks' = [job_tasks EXCEPT ![j][n].status = "failed",
                                      ![j][n].timed_out = TRUE]
    /\ orch' = [orch EXCEPT ![j] = done]
    /\ UNCHANGED <<work_jobs, test_reports, running_jobs, viol_age>>
    /\ UNCHANGED <<hwVars, envVars, tcVars, svcVars>>

\* the next child of _process_child_tasks, or the end of its for loop
NextChild(run) ==
    IF run.c < Len(run.children)
    THEN [run EXCEPT !.c = run.c + 1, !.pc = "child_awaiting"]
    ELSE [run EXCEPT !.pc = "parent_complete"]

WaitManual(j) ==
    PollTask(j, "wait", CurTask(j),
             [orch[j] EXCEPT !.pc = "children_load"], "timeout_fail")

WaitTimeout(j) ==
    TimeoutTask(j, "timeout_fail", CurTask(j),
                [orch[j] EXCEPT !.pc = "children_load"])

\* _process_child_tasks: SELECT the pending children by task_number
ChildrenLoad(j) ==
    /\ Ready(j, "children_load")
    /\ LET children ==
             SelectSeq([n \in 1..Len(job_tasks[j]) |-> n],
                 LAMBDA n : /\ job_tasks[j][n].parent_task_id = CurTask(j)
                            /\ job_tasks[j][n].status = "pending")
       IN orch' = [orch EXCEPT ![j] =
                     NextChild([orch[j] EXCEPT !.children = children, !.c = 0])]
    /\ UNCHANGED <<running_jobs, viol_age>>
    /\ UNCHANGED <<hwVars, dbVars, envVars, tcVars, svcVars>>

\* _process_child_tasks: _update_task_status(child, "awaiting_input")
ChildAwaiting(j) ==
    /\ Ready(j, "child_awaiting")
    /\ SetStatus(j, CurChild(j), "awaiting_input")
    /\ orch' = [orch EXCEPT ![j].pc = "child_wait", ![j].polls = 0]
    /\ UNCHANGED <<work_jobs, test_reports, running_jobs, viol_age>>
    /\ UNCHANGED <<hwVars, request, station_state, station_data, stop_seen, abort_seen, op_count,
                   tcVars, svcVars>>
    /\ Broadcast(j, "task_awaiting_input", CurChild(j))

ChildWait(j) ==
    PollTask(j, "child_wait", CurChild(j), NextChild(orch[j]), "child_timeout")

ChildTimeout(j) ==
    TimeoutTask(j, "child_timeout", CurChild(j), NextChild(orch[j]))

\* _process_child_tasks: _update_task_status(parent_task_id, "completed")
ParentComplete(j) ==
    /\ Ready(j, "parent_complete")
    /\ SetStatus(j, CurTask(j), "completed")
    /\ orch' = [orch EXCEPT ![j] = NextRow(j, orch[j])]
    /\ UNCHANGED <<work_jobs, test_reports, running_jobs, viol_age>>
    /\ UNCHANGED <<hwVars, envVars, tcVars, svcVars>>

\* _determine_overall_result: the rows with parent_task_id IS NULL count
determine_overall_result(rows) ==
    IF \E n \in DOMAIN rows : /\ rows[n].parent_task_id = 0
                              /\ rows[n].status \in NonTerminal
    THEN "incomplete"
    ELSE IF \E n \in DOMAIN rows : /\ rows[n].parent_task_id = 0
                                   /\ rows[n].step_result = "fail"
    THEN "fail"
    ELSE "pass"

\* _run_job: overall = await self._determine_overall_result(work_job_id)
Determine(j) ==
    /\ Ready(j, "determine")
    /\ orch' = [orch EXCEPT ![j].pc = "job_complete",
                            ![j].overall = determine_overall_result(job_tasks[j])]
    /\ UNCHANGED <<running_jobs, viol_age>>
    /\ UNCHANGED <<hwVars, dbVars, envVars, tcVars, svcVars>>

\* _run_job: UPDATE work_jobs SET status = 'completed', completed_at,
\* overall_result
JobComplete(j) ==
    /\ Ready(j, "job_complete")
    /\ UNCHANGED test_reports
    /\ work_jobs' = [work_jobs EXCEPT
          ![j].status = "completed",
          ![j].overall_result = orch[j].overall,
          ![j].completed_at_writes = Min(@ + 1, 2)]
    /\ Goto(j, "report")
    /\ UNCHANGED <<job_tasks, running_jobs, viol_age>>
    /\ UNCHANGED <<hwVars, envVars, tcVars, svcVars>>

\* _create_test_report: when the joined job row is found, job.get(...) on a
\* sqlite3.Row raises AttributeError while the values of the INSERT INTO
\* test_reports are built, so no row is added; when it is not found the
\* function returns; then _run_job returns
CreateTestReport(j) ==
    /\ Ready(j, "report")
    /\ \/ Raise(j)
       \/ Finish(j)
    /\ UNCHANGED viol_age
    /\ UNCHANGED <<hwVars, dbVars, envVars, tcVars, svcVars>>

\* _handle_abort
AbortPsuOff(j) == PsuDisable(j, "abort_psu", "abort_load")
AbortLoadOff(j) == LoadDisable(j, "abort_load", "abort_db")
AbortUpdate(j) ==
    /\ Ready(j, "abort_db")
    /\ UNCHANGED test_reports
    /\ work_jobs' = [work_jobs EXCEPT
          ![j].status = "aborted",
          ![j].completed_at_writes = Min(@ + 1, 2)]
    /\ job_tasks' = [job_tasks EXCEPT ![j] =
          [n \in DOMAIN job_tasks[j] |->
             IF job_tasks[j][n].status \in NonTerminal
             THEN [job_tasks[j][n] EXCEPT !.status = "aborted"]
             ELSE job_tasks[j][n]]]
    /\ Finish(j)
    /\ UNCHANGED viol_age
    /\ UNCHANGED <<hwVars, envVars, tcVars, svcVars>>

\* _handle_failure
FailPsuOff(j) == PsuDisable(j, "fail_psu", "fail_load")
FailLoadOff(j) == LoadDisable(j, "fail_load", "fail_db")
FailUpdate(j) ==
    /\ Ready(j, "fail_db")
    /\ UNCHANGED test_reports
    /\ work_jobs' = [work_jobs EXCEPT
          ![j].status = "failed",
          ![j].overall_result = "fail",
          ![j].completed_at_writes = Min(@ + 1, 2)]
    /\ job_tasks' = [job_tasks EXCEPT ![j] =
          [n \in DOMAIN job_tasks[j] |->
             IF job_tasks[j][n].status \in NonTerminal
             THEN [job_tasks[j][n] EXCEPT !.status = "failed"]
             ELSE job_tasks[j][n]]]
    /\ Finish(j)
    /\ UNCHANGED viol_age
    /\ UNCHANGED <<hwVars, envVars, tcVars, svcVars>>

NextOrch ==
    \/ \E j \in Jobs : StartJob(j)
    \/ \E s \in RequestedStations : StopStation(s)
    \/ \E s \in RequestedStations : PollStation(s)
    \/ \E j \in Jobs : AbortJob(j)
    \/ \E j \in Jobs : DeliverCancel(j)
    \/ \E j \in Jobs : \E n \in DOMAIN job_tasks[j], r \in {"pass", "fail"} :
          SubmitManualResult(j, n, r)
    \/ \E j \in Jobs : \E n \in DOMAIN job_tasks[j] : SkipTask(j, n)
    \/ \E j \in Jobs : Begin(j)
    \/ \E j \in Jobs : RunStart(j)
    \/ \E j \in Jobs : MarkInProgress(j)
    \/ \E j \in Jobs : AutoTime(j)
    \/ \E j \in Jobs : ChargeLoadOff(j)
    \/ \E j \in Jobs : ChargePsuOn(j)
    \/ \E j \in Jobs : ChargePsuOff(j)
    \/ \E j \in Jobs : DischargeStep(j)
    \/ \E j \in Jobs : DischargeSetLoad(j)
    \/ \E j \in Jobs : RestPsuOff(j)
    \/ \E j \in Jobs : RestLoadOff(j)
    \/ \E j \in Jobs : MonitorSample(j)
    \/ \E j \in Jobs : AutoUpdate(j)
    \/ \E j \in Jobs : CancelPsuOff(j)
    \/ \E j \in Jobs : CancelLoadOff(j)
    \/ \E j \in Jobs : CancelTaskAborted(j)
    \/ \E j \in Jobs : MarkAwaiting(j)
    \/ \E j \in Jobs : WaitManual(j)
    \/ \E j \in Jobs : WaitTimeout(j)
    \/ \E j \in Jobs : ChildrenLoad(j)
    \/ \E j \in Jobs : ChildAwaiting(j)
    \/ \E j \in Jobs : ChildWait(j)
    \/ \E j \in Jobs : ChildTimeout(j)
    \/ \E j \in Jobs : ParentComplete(j)
    \/ \E j \in Jobs : Determine(j)
    \/ \E j \in Jobs : JobComplete(j)
    \/ \E j \in Jobs : CreateTestReport(j)
    \/ \E j \in Jobs : AbortPsuOff(j)
    \/ \E j \in Jobs : AbortLoadOff(j)
    \/ \E j \in Jobs : AbortUpdate(j)
    \/ \E j \in Jobs : FailPsuOff(j)
    \/ \E j \in Jobs : FailLoadOff(j)
    \/ \E j \in Jobs : FailUpdate(j)

NextTC ==
    \/ StartRun
    \/ ChargeSetup \/ ChargeIter \/ ChargeExit
    \/ RestIter \/ RestExit
    \/ DischargeSetup \/ DischargeToFloorIter \/ CapDischargeIter
    \/ FastDischargeIter \/ DischargeExit
    \/ Evaluate \/ Finally
    \/ SafetyMonitor \/ RequestStop

(***************************************************************************)
(* Part 3: the dock EEPROM codec (services/eeprom_manager.py)              *)
(*                                                                         *)
(* A block is the sequence of its bytes: byte offset o of the source is    *)
(* element o + 1.  A string is the sequence of its character codes, all    *)
(* ASCII, so that its UTF-8 encoding has one byte per character.  A        *)
(* temperature is held in hundredths of a degree, which represents the     *)
(* float values used here exactly.                                         *)
(***************************************************************************)
NoData == [absent |-> TRUE]
NoConfig == [none |-> TRUE]
NoBlock == <<-1>>
NotCalled == [not_called |-> TRUE]

Zeros(n) == [i \in 1..n |-> 0]

Max(a, b) == IF a > b THEN a ELSE b

\* the members of BatteryType
BatteryTypes == 0..4

\* BatteryConfig: the Field constraints pydantic enforces at construction
FieldsValid(c) ==
    /\ c.battery_type \in BatteryTypes
    /\ c.nominal_capacity_mah >= 0
    /\ c.cell_count >= 1 /\ c.cell_count <= 40
    /\ c.nominal_voltage_mv >= 0 /\ c.nominal_voltage_mv <= 30000
    /\ c.charge_voltage_limit_mv >= 0 /\ c.charge_voltage_limit_mv <= 20000
    /\ c.standard_charge_current_ma >= 0 /\ c.standard_charge_current_ma <= 10000
    /\ c.standard_charge_duration_min >= 0
    /\ c.recondition_charge_current_ma >= 0
    /\ c.recondition_charge_current_ma <= 10000
    /\ c.recondition_charge_duration_min >= 0
    /\ c.recondition_storage_threshold_months >= 0
    /\ c.trickle_charge_current_ma >= 0 /\ c.trickle_charge_current_ma <= 5000
    /\ c.cap_test_discharge_current_ma >= 0
    /\ c.cap_test_discharge_current_ma <= 10000
    /\ c.cap_test_end_voltage_mv >= 0
    /\ c.cap_test_max_duration_min >= 0
    /\ c.cap_test_rest_before_min >= 0
    /\ c.cap_test_pass_min_minutes >= 0
    /\ c.cap_test_pass_min_capacity_pct >= 0
    /\ c.cap_test_pass_min_capacity_pct <= 100
    /\ c.cap_test_voltage_check_time_min >= 0
    /\ c.cap_test_voltage_check_min_mv >= 0
    /\ c.fast_discharge_current_ma >= 0 /\ c.fast_discharge_current_ma <= 30000
    /\ c.fast_discharge_end_voltage_mv >= 0
    /\ c.fast_discharge_pass_min_minutes >= 0
    /\ c.fast_discharge_rest_before_min >= 0
    /\ c.pre_discharge_current_ma >= 0 /\ c.pre_discharge_current_ma <= 30000
    /\ c.pre_discharge_end_voltage_mv >= 0
    /\ c.post_charge_duration_min >= 0
    /\ c.absolute_min_voltage_mv >= 0
    /\ c.age_rest_threshold_months >= 0
    /\ c.age_rest_duration_min >= 0
    /\ Len(c.part_number) <= 32
    /\ Len(c.model_description) <= 32
    /\ Len(c.manufacturer_code) <= 8

_read_u16(data, offset) == data[offset + 2] * 256 + data[offset + 1]

_read_s16(data, offset) ==
    LET value == _read_u16(data, offset)
    IN  IF value >= 32768 THEN value - 65536 ELSE value

\* the two bytes _write_u16 stores
_write_u16(value) ==
    LET v == Max(0, Min(65535, value))
    IN  <<v % 256, (v \div 256) % 256>>

_write_s16(value) == _write_u16(IF value < 0 THEN value + 65536 ELSE value)

\* data up to the first NUL; without one, all of it less trailing NULs,
\* that is all of it
_parse_string(data) ==
    IF \E i \in 1..Len(data) : data[i] = 0
    THEN LET null_index == CHOOSE i \in 1..Len(data) :
                 data[i] = 0 /\ \A k \in 1..(i - 1) : data[k] # 0
         IN  SubSeq(data, 1, null_index - 1)
    ELSE data

\* the max_len bytes _write_string leaves at its offset
_write_string(value, max_len) ==
    LET encoded == SubSeq(value, 1, Min(Len(value), max_len - 1))
    IN  encoded \o Zeros(max_len - Len(encoded))

RECURSIVE Xor(_, _)
\* a ^ b
Xor(a, b) ==
    IF a = 0 THEN b
    ELSE IF b = 0 THEN a
    ELSE ((a + b) % 2) + 2 * Xor(a \div 2, b \div 2)

RECURSIVE CrcBits(_, _)
\* the inner loop of _crc16: n more shifts
CrcBits(crc, n) ==
    IF n = 0 THEN crc
    ELSE IF crc % 2 = 1
    THEN CrcBits(Xor(crc \div 2, 40961), n - 1)
    ELSE CrcBits(crc \div 2, n - 1)

RECURSIVE CrcBytes(_, _, _, _)
\* the outer loop of _crc16 over bytes lo..hi of data, in order; the range
\* is halved so that the evaluation nests only logarithmically deep
CrcBytes(crc, data, lo, hi) ==
    IF lo > hi THEN crc
    ELSE IF lo = hi THEN CrcBits(Xor(crc, data[lo]), 8)
    ELSE LET mid == (lo + hi) \div 2
             left == CrcBytes(crc, data, lo, mid)
         IN  IF left \in 0..65535
             THEN CrcBytes(left, data, mid + 1, hi)
             ELSE left

\* CRC-16/MODBUS
_crc16(data) == CrcBytes(65535, data, 1, Len(data))

\* int(x * 10) of a temperature: truncation toward zero
TenthsOf(hundredths) ==
    IF hundredths >= 0 THEN hundredths \div 10 ELSE -((-hundredths) \div 10)

\* write_battery_config, bytes 0x00..0x4B of the block
EncodeHeader(c) ==
    <<c.format_version, c.battery_type>>
    \o _write_u16(c.nominal_capacity_mah)
    \o <<c.cell_count, 0>>
    \o _write_u16(c.nominal_voltage_mv)
    \o _write_u16(c.charge_voltage_limit_mv)
    \o _write_u16(c.standard_charge_current_ma)
    \o _write_u16(c.standard_charge_duration_min)
    \o _write_u16(c.trickle_charge_current_ma)
    \o _write_u16(c.recondition_charge_current_ma)
    \o _write_u16(c.recondition_charge_duration_min)
    \o _write_u16(c.recondition_storage_threshold_months)
    \o _write_u16(0)
    \o _write_u16(c.cap_test_discharge_current_ma)
    \o _write_u16(c.cap_test_end_voltage_mv)
    \o _write_u16(c.cap_test_max_duration_min)
    \o _write_u16(c.cap_test_rest_before_min)
    \o _write_u16(c.cap_test_pass_min_minutes)
    \o _write_u16(c.cap_test_pass_min_capacity_pct)
    \o _write_u16(c.cap_test_voltage_check_time_min)
    \o _write_u16(c.cap_test_voltage_check_min_mv)
    \o <<IF c.fast_discharge_enabled THEN 1 ELSE 0, 0>>
    \o _write_u16(c.fast_discharge_current_ma)
    \o _write_u16(c.fast_discharge_end_voltage_mv)
    \o _write_u16(c.fast_discharge_pass_min_minutes)
    \o _write_u16(c.fast_discharge_rest_before_min)
    \o _write_u16(0)
    \o _write_u16(c.pre_discharge_current_ma)
    \o _write_u16(c.pre_discharge_end_voltage_mv)
    \o <<IF c.post_charge_enabled THEN 1 ELSE 0, 0>>
    \o _write_u16(c.post_charge_duration_min)
    \o _write_s16(TenthsOf(c.max_charge_temp_c))
    \o _write_s16(TenthsOf(c.max_discharge_temp_c))
    \o _write_s16(TenthsOf(c.emergency_temp_max_c))
    \o _write_s16(TenthsOf(c.min_operating_temp_c))
    \o _write_u16(c.absolute_min_voltage_mv)
    \o _write_u16(0)
    \o _write_u16(c.age_rest_threshold_months)
    \o _write_u16(c.age_rest_duration_min)

\* write_battery_config: storing a value outside 0..255 in the bytearray
\* raises (cell_count and battery_type are within it in every BatteryConfig)
EncodeRaises(c) == c.format_version \notin 0..255

\* write_battery_config, the block it builds

EncodeBlock(c) ==
    LET header == EncodeHeader(c)
    IN  header
        \o _write_u16(_crc16(header))
        \o _write_u16(0)
        \o _write_string(c.part_number, 32)
        \o _write_string(c.model_description, 32)
        \o _write_string(c.manufacturer_code, 8)

\* read_battery_config, the fields it parses from a block of full length
ParseFields(d) ==
    [format_version |-> d[1],
     battery_type |-> d[2],
     nominal_capacity_mah |-> _read_u16(d, 2),
     cell_count |-> d[5],
     nominal_voltage_mv |-> _read_u16(d, 6),
     charge_voltage_limit_mv |-> _read_u16(d, 8),
     standard_charge_current_ma |-> _read_u16(d, 10),
     standard_charge_duration_min |-> _read_u16(d, 12),
     trickle_charge_current_ma |-> _read_u16(d, 14),
     recondition_charge_current_ma |-> _read_u16(d, 16),
     recondition_charge_duration_min |-> _read_u16(d, 18),
     recondition_storage_threshold_months |-> _read_u16(d, 20),
     cap_test_discharge_current_ma |-> _read_u16(d, 24),
     cap_test_end_voltage_mv |-> _read_u16(d, 26),
     cap_test_max_duration_min |-> _read_u16(d, 28),
     cap_test_rest_before_min |-> _read_u16(d, 30),
     cap_test_pass_min_minutes |-> _read_u16(d, 32),
     cap_test_pass_min_capacity_pct |-> _read_u16(d, 34),
     cap_test_voltage_check_time_min |-> _read_u16(d, 36),
     cap_test_voltage_check_min_mv |-> _read_u16(d, 38),
     fast_discharge_enabled |-> d[41] # 0,
     fast_discharge_current_ma |-> _read_u16(d, 42),
     fast_discharge_end_voltage_mv |-> _read_u16(d, 44),
     fast_discharge_pass_min_minutes |-> _read_u16(d, 46),
     fast_discharge_rest_before_min |-> _read_u16(d, 48),
     pre_discharge_current_ma |-> _read_u16(d, 52),
     pre_discharge_end_voltage_mv |-> _read_u16(d, 54),
     post_charge_enabled |-> d[57] # 0,
     post_charge_duration_min |-> _read_u16(d, 58),
     max_charge_temp_c |-> _read_s16(d, 60) * 10,
     max_discharge_temp_c |-> _read_s16(d, 62) * 10,
     emergency_temp_max_c |-> _read_s16(d, 64) * 10,
     min_operating_temp_c |-> _read_s16(d, 66) * 10,
     absolute_min_voltage_mv |-> _read_u16(d, 68),
     age_rest_threshold_months |-> _read_u16(d, 72),
     age_rest_duration_min |-> _read_u16(d, 74),
     part_number |-> _parse_string(SubSeq(d, 81, 112)),
     model_description |-> _parse_string(SubSeq(d, 113, 144)),
     manufacturer_code |-> _parse_string(SubSeq(d, 145, 152))]

\* read_battery_config, its try block: BatteryType(...) or the BatteryConfig
\* constructor raising is caught and answered with None
DecodeBlock(d) ==
    LET c == ParseFields(d)
    IN  IF FieldsValid(c) THEN c ELSE NoConfig

\* the stored CRC is the one computed over bytes 0x00..0x4B
CrcMatches(d) == _read_u16(d, 76) = _crc16(SubSeq(d, 1, 76))

\* read_battery_config with a CRC mismatch answered like a parse failure
ReadResult_mut(data) ==
    IF data = NoData \/ ~data.eeprom_present
    THEN [ret |-> NoConfig, log |-> {}]
    ELSE IF Len(data.eeprom_data) < 152
    THEN [ret |-> NoConfig, log |-> {"error: insufficient data"}]
    ELSE LET d == data.eeprom_data
             c == IF CrcMatches(d) THEN DecodeBlock(d) ELSE NoConfig
         IN  [ret |-> c,
              log |-> (IF d[1] # 2 THEN {"warning: format version"} ELSE {})
                      \cup (IF CrcMatches(d) THEN {}
                            ELSE {"warning: crc mismatch"})
                      \cup (IF c = NoConfig THEN {"error: parse failed"}
                            ELSE {})]

\* read_battery_config(station_id): the value returned and the lines logged
ReadResult(data) ==
    IF data = NoData \/ ~data.eeprom_present
    THEN [ret |-> NoConfig, log |-> {}]
    ELSE IF Len(data.eeprom_data) < 152
    THEN [ret |-> NoConfig, log |-> {"error: insufficient data"}]
    ELSE LET d == data.eeprom_data
             c == DecodeBlock(d)
         IN  [ret |-> c,
              log |-> (IF d[1] # 2 THEN {"warning: format version"} ELSE {})
                      \cup (IF CrcMatches(d) THEN {}
                            ELSE {"warning: crc mismatch"})
                      \cup (IF c = NoConfig THEN {"error: parse failed"}
                            ELSE {})]

\* the model configuration of a dock, fields a BatteryConfig accepts
BaseConfig ==
    [format_version |-> 2,
     battery_type |-> 0,
     nominal_capacity_mah |-> 2300,
     cell_count |-> 5,
     nominal_voltage_mv |-> 6000,
     charge_voltage_limit_mv |-> 8000,
     standard_charge_current_ma |-> 230,
     standard_charge_duration_min |-> 960,
     trickle_charge_current_ma |-> 0,
     recondition_charge_current_ma |-> 0,
     recondition_charge_duration_min |-> 840,
     recondition_storage_threshold_months |-> 6,
     cap_test_discharge_current_ma |-> 460,
     cap_test_end_voltage_mv |-> 5000,
     cap_test_max_duration_min |-> 480,
     cap_test_rest_before_min |-> 240,
     cap_test_pass_min_minutes |-> 0,
     cap_test_pass_min_capacity_pct |-> 85,
     cap_test_voltage_check_time_min |-> 0,
     cap_test_voltage_check_min_mv |-> 0,
     fast_discharge_enabled |-> FALSE,
     fast_discharge_current_ma |-> 0,
     fast_discharge_end_voltage_mv |-> 0,
     fast_discharge_pass_min_minutes |-> 0,
     fast_discharge_rest_before_min |-> 60,
     pre_discharge_current_ma |-> 0,
     pre_discharge_end_voltage_mv |-> 0,
     post_charge_enabled |-> TRUE,
     post_charge_duration_min |-> 270,
     max_charge_temp_c |-> 4500,
     max_discharge_temp_c |-> 5500,
     emergency_temp_max_c |-> 6000,
     min_operating_temp_c |-> -1500,
     absolute_min_voltage_mv |-> 4500,
     age_rest_threshold_months |-> 24,
     age_rest_duration_min |-> 1440,
     part_number |-> <<>>,
     model_description |-> <<78, 105, 67, 100>>,
     manufacturer_code |-> <<68, 49>>]

\* part numbers: none, "3301-31", and one of the 32 characters the model
\* allows
PartNumbers == {<<>>, <<51, 51, 48, 49, 45, 51, 49>>, [i \in 1..32 |-> 65]}

\* configurations an operator may hand to write_battery_config
ConfigInputs ==
    {[BaseConfig EXCEPT !.format_version = fv,
                        !.nominal_capacity_mah = cap,
                        !.fast_discharge_enabled = fe,
                        !.max_charge_temp_c = t,
                        !.part_number = pn] :
        fv \in {2, 300}, cap \in {2300, 70000}, fe \in BOOLEAN,
        t \in {4500, 4555}, pn \in PartNumbers}

\* blocks a programmed dock holds
ProgrammedBlocks ==
    {EncodeBlock([BaseConfig EXCEPT !.fast_discharge_enabled = fe,
                                    !.part_number = pn]) :
        fe \in BOOLEAN, pn \in PartNumbers \ {[i \in 1..32 |-> 65]}}

\* what else a dock EEPROM may hold: one byte of a programmed block differs
\* (offset + 1, value)
Patches ==
    {<<1, 2>>,      \* nothing differs
     <<1, 1>>,      \* an older format version
     <<2, 7>>,      \* no BatteryType
     <<5, 0>>,      \* no cells
     <<6, 1>>,      \* a reserved byte in use
     <<41, 2>>,     \* a flag stored as 2
     <<77, 0>>,     \* another CRC
     <<90, 66>>}    \* a character after the terminating NUL

\* the CRC of the block recomputed and stored
WithCrc(d) ==
    [i \in 1..Len(d) |->
        IF i \in {77, 78} /\ Len(d) >= 78
        THEN _write_u16(_crc16(SubSeq(d, 1, 76)))[i - 76]
        ELSE d[i]]

BlockInputs ==
    {IF fix THEN WithCrc([b EXCEPT ![p[1]] = p[2]]) ELSE [b EXCEPT ![p[1]] = p[2]] :
        b \in ProgrammedBlocks, p \in Patches, fix \in BOOLEAN}

\* lengths of eeprom_data the cache may hold: all of the block, one byte
\* less, what one poll reads, nothing
CachedLengths == {152, 151, 64, 0}

I2cInputs ==
    {NoData}
    \cup {[eeprom_present |-> pr, eeprom_data |-> SubSeq(b, 1, n)] :
            pr \in BOOLEAN, b \in BlockInputs, n \in CachedLengths}

EepromIdle ==
    /\ i2c_data = NoData
    /\ config = NoConfig
    /\ read_ret = NotCalled
    /\ read_log = {}
    /\ write_ret = <<>>
    /\ write_arg = NoBlock

\* a dock is in place and an operator may have a configuration to program
InitEeprom ==
    /\ \/ i2c_data \in I2cInputs /\ config = NoConfig
       \/ i2c_data = NoData /\ config \in ConfigInputs
    /\ read_ret = NotCalled
    /\ read_log = {}
    /\ write_ret = <<>>
    /\ write_arg = NoBlock

ReadBatteryConfig ==
    /\ read_ret = NotCalled
    /\ write_ret = <<>>
    /\ read_ret' = ReadResult(i2c_data).ret
    /\ read_log' = ReadResult(i2c_data).log
    /\ UNCHANGED <<i2c_data, config, write_ret, write_arg>>
    /\ UNCHANGED <<tcVars, orchVars, condVars, procVars, restVars, mgrVars>>

\* write_battery_config(station_id, c): i2c_poller has no write_eeprom, so
\* the call that takes the block raises and False is returned
WriteBatteryConfig(c) ==
    /\ write_ret = <<>>
    /\ write_arg' = IF EncodeRaises(c) THEN NoBlock ELSE EncodeBlock(c)
    /\ write_ret' = <<FALSE>>
    /\ UNCHANGED <<i2c_data, config, read_ret, read_log>>
    /\ UNCHANGED <<tcVars, orchVars, condVars, procVars, restVars, mgrVars>>

\* configurations at hand: the operator's, or the one read from the dock
ConfigsAtHand == {c \in {config, read_ret} : c # NoConfig /\ c # NotCalled}

NextEeprom ==
    \/ ReadBatteryConfig
    \/ \E c \in ConfigsAtHand : WriteBatteryConfig(c)

(***************************************************************************)
(* Part 4: the condition evaluator (services/condition_evaluator.py)       *)
(*                                                                         *)
(* A Python value is a record tagged with its type.  A float is held in    *)
(* thousandths.  What an evaluator answers is "True", "False", or "Raise"  *)
(* when it raises.                                                         *)
(***************************************************************************)
PyNone == [t |-> "None"]
PyInt(n) == [t |-> "int", n |-> n]
PyStr(s) == [t |-> "str", s |-> s]
PyBool(b) == [t |-> "bool", b |-> b]
PyDict(d) == [t |-> "dict", d |-> d]
PyList == [t |-> "list"]
EmptyDict == [k \in {} |-> PyNone]

\* bool(x)
Truthy(x) ==
    CASE x.t = "None" -> FALSE
      [] x.t = "int" -> x.n # 0
      [] x.t = "str" -> x.s # ""
      [] x.t = "bool" -> x.b
      [] x.t = "dict" -> DOMAIN x.d # {}
      [] OTHER -> FALSE

PyBoolOf(b) == IF b THEN "True" ELSE "False"

\* d.get(k, default) of a dict d with string keys
DictGet(d, k, default) ==
    IF k.t = "str" /\ k.s \in DOMAIN d THEN d[k.s] ELSE default

CharAt(s, i) == SubSeq(s, i, i)

\* the characters of the strings used, in code point order
Alphabet ==
    " !+,-.0123456789<=>ABCDEFGHIJKLMNOPQRSTUVWXYZ_abcdefghijklmnopqrstuvwxyz~"
UpperLetters == "ABCDEFGHIJKLMNOPQRSTUVWXYZ"
LowerLetters == "abcdefghijklmnopqrstuvwxyz"
Digits == {"0", "1", "2", "3", "4", "5", "6", "7", "8", "9"}

Ord(c) == CHOOSE i \in 1..Len(Alphabet) : CharAt(Alphabet, i) = c

MapChars(s, from, to) ==
    LET ch(c) == IF \E i \in 1..Len(from) : CharAt(from, i) = c
                 THEN CharAt(to, CHOOSE i \in 1..Len(from) : CharAt(from, i) = c)
                 ELSE c
        RECURSIVE go(_)
        go(i) == IF i > Len(s) THEN "" ELSE ch(CharAt(s, i)) \o go(i + 1)
    IN  go(1)

\* str.lower(), str.upper()
Lower(s) == MapChars(s, UpperLetters, LowerLetters)
Upper(s) == MapChars(s, LowerLetters, UpperLetters)

RECURSIVE LStrip(_)
LStrip(s) ==
    IF Len(s) > 0 /\ CharAt(s, 1) = " " THEN LStrip(SubSeq(s, 2, Len(s))) ELSE s

RECURSIVE RStrip(_)
RStrip(s) ==
    IF Len(s) > 0 /\ CharAt(s, Len(s)) = " "
    THEN RStrip(SubSeq(s, 1, Len(s) - 1)) ELSE s

\* str.strip()
Strip(s) == RStrip(LStrip(s))

\* sub in s
Contains(s, sep) ==
    \E i \in 1..(Len(s) - Len(sep) + 1) : SubSeq(s, i, i + Len(sep) - 1) = sep

\* s.split(sub, 1) where sub in s: what is before and after the first sub
SplitOnce(s, sep) ==
    LET i == CHOOSE i \in 1..(Len(s) - Len(sep) + 1) :
                /\ SubSeq(s, i, i + Len(sep) - 1) = sep
                /\ \A k \in 1..(i - 1) : SubSeq(s, k, k + Len(sep) - 1) # sep
    IN  <<SubSeq(s, 1, i - 1), SubSeq(s, i + Len(sep), Len(s))>>

RECURSIVE Split(_, _)
\* s.split(sub)
Split(s, sep) ==
    IF Contains(s, sep)
    THEN <<SplitOnce(s, sep)[1]>> \o Split(SplitOnce(s, sep)[2], sep)
    ELSE <<s>>

IsDigits(s) == Len(s) > 0 /\ \A i \in 1..Len(s) : CharAt(s, i) \in Digits

RECURSIVE DigitsValue(_)
DigitsValue(s) ==
    IF Len(s) = 0 THEN 0
    ELSE 10 * DigitsValue(SubSeq(s, 1, Len(s) - 1))
         + (CHOOSE d \in 0..9 : ToString(d) = CharAt(s, Len(s)))

\* a literal without its sign, and the sign
Unsigned(s) ==
    IF Len(s) > 0 /\ CharAt(s, 1) \in {"+", "-"} THEN SubSeq(s, 2, Len(s)) ELSE s
SignOf(s) == IF Len(s) > 0 /\ CharAt(s, 1) = "-" THEN -1 ELSE 1

\* int(x): <<n>>, or <<>> when it raises ValueError or TypeError
IntOf(x) ==
    CASE x.t = "int" -> <<x.n>>
      [] x.t = "bool" -> <<IF x.b THEN 1 ELSE 0>>
      [] x.t = "str" ->
            LET s == Strip(x.s)
            IN  IF IsDigits(Unsigned(s))
                THEN <<SignOf(s) * DigitsValue(Unsigned(s))>> ELSE <<>>
      [] OTHER -> <<>>

\* float(x) in thousandths, for literals of digits with at most three
\* after the point: <<n>>, or <<>> when it raises ValueError or TypeError
FloatOf(x) ==
    CASE x.t = "int" -> <<1000 * x.n>>
      [] x.t = "bool" -> <<IF x.b THEN 1000 ELSE 0>>
      [] x.t = "str" ->
            LET s == Strip(x.s)
                u == Unsigned(s)
            IN  IF IsDigits(u) THEN <<SignOf(s) * 1000 * DigitsValue(u)>>
                ELSE IF Contains(u, ".")
                        /\ IsDigits(SplitOnce(u, ".")[1])
                        /\ IsDigits(SplitOnce(u, ".")[2])
                        /\ Len(SplitOnce(u, ".")[2]) <= 3
                THEN LET f == SplitOnce(u, ".")[2]
                         frac == DigitsValue(f \o SubSeq("000", 1, 3 - Len(f)))
                     IN  <<SignOf(s) * (1000 * DigitsValue(SplitOnce(u, ".")[1])
                                        + frac)>>
                ELSE <<>>
      [] OTHER -> <<>>

\* str(x) of an int or a str
StrOf(x) ==
    CASE x.t = "int" -> ToString(x.n)
      [] x.t = "str" -> x.s
      [] x.t = "bool" -> IF x.b THEN "True" ELSE "False"
      [] OTHER -> x.t

RECURSIVE StrLess(_, _)
\* a < b of two strings
StrLess(a, b) ==
    IF Len(b) = 0 THEN FALSE
    ELSE IF Len(a) = 0 THEN TRUE
    ELSE IF CharAt(a, 1) = CharAt(b, 1)
    THEN StrLess(SubSeq(a, 2, Len(a)), SubSeq(b, 2, Len(b)))
    ELSE Ord(CharAt(a, 1)) < Ord(CharAt(b, 1))

IsNumber(x) == x.t \in {"int", "bool"}

\* a >= b: numbers with numbers, strings with strings, TypeError otherwise
PyGe(a, b) ==
    IF IsNumber(a) /\ IsNumber(b)
    THEN PyBoolOf(FloatOf(a)[1] >= FloatOf(b)[1])
    ELSE IF a.t = "str" /\ b.t = "str" THEN PyBoolOf(~StrLess(a.s, b.s))
    ELSE "Raise"

\* json.loads of the texts a feature_flags column holds here
JsonLoads(s) ==
    CASE s = "{\"has_heating_foil\": true}" ->
            <<PyDict([k \in {"has_heating_foil"} |-> PyBool(TRUE)])>>
      [] s = "[]" -> <<PyList>>
      [] OTHER -> <<>>

_eval_feature_flag(key, value, ctx) ==
    LET got == DictGet(ctx, PyStr("feature_flags"), PyDict(EmptyDict))
        loaded == IF got.t = "str" THEN JsonLoads(got.s) ELSE <<got>>
    IN  IF loaded = <<>> \/ loaded[1].t # "dict" THEN "Raise"
        ELSE LET flag_val == DictGet(loaded[1].d, key, PyNone)
                 expected == IF value.t = "str"
                             THEN Lower(value.s) \in {"true", "1", "yes"}
                             ELSE Truthy(value)
             IN  IF flag_val = PyNone THEN "False"
                 ELSE PyBoolOf(Truthy(flag_val) = expected)

\* [v.strip() for v in value.split(",")]
StrippedItems(s) ==
    {Strip(Split(s, ",")[i]) : i \in 1..Len(Split(s, ","))}

_eval_amendment_match(key, value, ctx) ==
    LET amendment == DictGet(ctx, PyStr("amendment"), PyStr(""))
    IN  IF ~Truthy(value) THEN "True"
        ELSE IF value.t # "str" \/ amendment.t # "str" THEN "Raise"
        ELSE PyBoolOf(Upper(amendment.s) \in
                        {Upper(v) : v \in StrippedItems(value.s)})

_eval_age_threshold(key, value, ctx) ==
    LET got == DictGet(ctx, key, PyInt(0))
        actual == IF got = PyNone THEN PyInt(0) ELSE got
        named == DictGet(ctx, value, PyInt(0))
        threshold == IF IntOf(value) # <<>> THEN PyInt(IntOf(value)[1])
                     ELSE IF named = PyNone THEN PyInt(0) ELSE named
    IN  PyGe(actual, threshold)

_eval_service_type(key, value, ctx) ==
    LET current == DictGet(ctx, PyStr("service_type"), PyStr(""))
    IN  IF value.t # "str" \/ current.t # "str" THEN "Raise"
        ELSE PyBoolOf(Lower(current.s) \in
                        {Lower(v) : v \in StrippedItems(value.s)})

\* the operators _eval_custom_expression looks for, in its order
ComparisonOps == <<">=", "<=", "!=", "==", ">", "<">>

_eval_custom_expression(key, value, ctx) ==
    IF ~Truthy(value) THEN "False"
    ELSE IF value.t # "str" THEN "Raise"
    ELSE LET RECURSIVE try(_)
             try(i) ==
                IF i > Len(ComparisonOps) THEN "False"
                ELSE IF ~Contains(value.s, ComparisonOps[i]) THEN try(i + 1)
                ELSE LET op == ComparisonOps[i]
                         parts == SplitOnce(value.s, op)
                         field == Strip(parts[1])
                         expected == Strip(parts[2])
                         actual == DictGet(ctx, PyStr(field), PyNone)
                         a == FloatOf(actual)
                         e == FloatOf(PyStr(expected))
                     IN  IF actual = PyNone THEN "False"
                         ELSE IF a # <<>> /\ e # <<>>
                         THEN PyBoolOf(CASE op = ">=" -> a[1] >= e[1]
                                         [] op = "<=" -> a[1] <= e[1]
                                         [] op = ">" -> a[1] > e[1]
                                         [] op = "<" -> a[1] < e[1]
                                         [] op = "==" -> a[1] = e[1]
                                         [] op = "!=" -> a[1] # e[1])
                         ELSE IF op = "==" THEN PyBoolOf(StrOf(actual) = expected)
                         ELSE IF op = "!=" THEN PyBoolOf(StrOf(actual) # expected)
                         ELSE "False"
         IN  try(1)

\* the _eval_ methods getattr finds
EvaluatorKinds == {"feature_flag", "amendment_match", "age_threshold",
                   "service_type", "custom_expression"}

Evaluator(kind, key, value, ctx) ==
    CASE kind = "feature_flag" -> _eval_feature_flag(key, value, ctx)
      [] kind = "amendment_match" -> _eval_amendment_match(key, value, ctx)
      [] kind = "age_threshold" -> _eval_age_threshold(key, value, ctx)
      [] kind = "service_type" -> _eval_service_type(key, value, ctx)
      [] kind = "custom_expression" ->
            _eval_custom_expression(key, value, ctx)

\* ConditionEvaluator.evaluate
evaluate(condition_type, condition_key, condition_value, ctx) ==
    IF ~Truthy(condition_type) \/ condition_type = PyStr("always") THEN "True"
    ELSE IF StrOf(condition_type) \notin EvaluatorKinds THEN "False"
    ELSE LET r == Evaluator(condition_type.s, condition_key, condition_value,
                            ctx)
         IN  IF r = "Raise" THEN "False" ELSE r

\* condition_type, condition_key and condition_value columns of a section
\* or step row
ConditionTypes ==
    {PyNone, PyStr(""), PyStr("always"), PyStr("feature_flag"),
     PyStr("amendment_match"), PyStr("age_threshold"), PyStr("service_type"),
     PyStr("custom_expression"), PyStr("age_treshold")}

ConditionKeys ==
    {PyNone, PyStr("age_months"), PyStr("months_since_service"),
     PyStr("has_heating_foil")}

ConditionValues ==
    {PyNone, PyStr(""), PyStr("6"), PyStr(" 6"), PyStr("6.5"), PyStr("six"),
     PyStr("recondition_threshold"), PyStr("true"), PyStr("a, b"),
     PyStr("overhaul,repair"),
     PyStr("age_months >= 6"), PyStr("age_months>6"), PyStr("age_months >="),
     PyStr("age_months !="), PyStr("age_months ~ 6"),
     PyStr("part_number == 3301-31")}

\* the battery context of a job, for batteries of several ages
ContextOf(age, since, flags) ==
    [k \in {"feature_flags", "amendment", "age_months", "months_since_service",
            "service_type", "part_number", "recondition_threshold"} |->
        CASE k = "feature_flags" -> flags
          [] k = "amendment" -> PyStr("A")
          [] k = "age_months" -> age
          [] k = "months_since_service" -> since
          [] k = "service_type" -> PyStr("Overhaul")
          [] k = "part_number" -> PyStr("3301-31")
          [] k = "recondition_threshold" -> PyInt(6)]

Contexts ==
    {ContextOf(age, since, flags) :
        age \in {PyInt(5), PyInt(6), PyInt(7), PyNone, PyStr("12")},
        since \in {PyInt(30)},
        flags \in {PyDict([k \in {"has_heating_foil"} |-> PyBool(TRUE)]),
                   PyDict([k \in {"has_heating_foil"} |-> PyBool(FALSE)]),
                   PyStr("{\"has_heating_foil\": true}"),
                   PyStr("{has_heating_foil")}}
    \cup {EmptyDict}

NoCondition == [condition_type |-> PyNone, condition_key |-> PyNone,
                condition_value |-> PyNone]

ConditionIdle ==
    /\ condition = NoCondition
    /\ context = EmptyDict
    /\ eval_ret = <<>>

InitCondition ==
    /\ condition \in [condition_type : ConditionTypes,
                      condition_key : ConditionKeys,
                      condition_value : ConditionValues]
    /\ context \in Contexts
    /\ eval_ret = <<>>

\* a caller evaluates the condition of a row against the context
EvaluateCondition ==
    /\ eval_ret = <<>>
    /\ eval_ret' = <<evaluate(condition.condition_type, condition.condition_key,
                              condition.condition_value, context)>>
    /\ UNCHANGED <<condition, context>>
    /\ UNCHANGED <<tcVars, orchVars, eepromVars, procVars, restVars, mgrVars>>

NextCondition == EvaluateCondition

(***************************************************************************)
(* Part 5: resolving a procedure and creating its tasks                    *)
(* (services/procedure_resolver.py, services/job_task_factory.py)          *)
(***************************************************************************)
\* ids of the tech_pub_sections rows of the tech pub and of the
\* procedure_steps rows of its sections
SectionIds == {1, 2}
StepIds == {1, 2, 3}

NotResolved == <<[not_resolved |-> TRUE]>>
NotReturned == <<-1>>

\* the condition columns of the rows: none, and one on the battery's age
RowConditions ==
    {NoCondition,
     [condition_type |-> PyStr("age_threshold"),
      condition_key |-> PyStr("age_months"),
      condition_value |-> PyStr("7")]}

\* section_type of the sections of the tech pub
SectionTypeOf(id) == IF id = 1 THEN "inspection" ELSE "automated_test"

\* tech_pub_sections rows of the tech pub, by id
SectionRows ==
    [SectionIds -> [is_active : {0, 1}, sort_order : {1, 2},
                    condition : RowConditions]]

\* procedure_steps rows, by id
StepRows ==
    [StepIds -> [section_id : SectionIds, is_active : {0, 1},
                 sort_order : {1, 2}, condition : RowConditions]]

\* resolve_procedure, step 4: the evaluation context of the item
ItemContext(age) ==
    [k \in {"feature_flags", "amendment", "age_months", "months_since_service",
            "service_type", "part_number"} |->
        CASE k = "feature_flags" -> PyDict(EmptyDict)
          [] k = "amendment" -> PyStr("")
          [] k = "age_months" -> PyInt(age)
          [] k = "months_since_service" -> PyInt(0)
          [] k = "service_type" -> PyStr("capacity_test")
          [] k = "part_number" -> PyStr("3301-31")]

\* the orders in which SELECT ... ORDER BY sort_order ASC may return the
\* rows `ids` of `table`: rows of equal sort_order come in any order
OrderBySortOrder(table, ids) ==
    {s \in [1..Cardinality(ids) -> ids] :
        /\ \A i, k \in DOMAIN s : i # k => s[i] # s[k]
        /\ \A i, k \in DOMAIN s :
              i < k => table[s[i]].sort_order <= table[s[k]].sort_order}

\* evaluate on the condition columns of a row
RowApplies(row, ctx) ==
    evaluate(row.condition.condition_type, row.condition.condition_key,
             row.condition.condition_value, ctx) = "True"

\* param_source of the procedure_steps rows
ParamSourceOf(id) == IF id = 3 THEN "previous_step" ELSE "eeprom"

\* the ResolvedStep built from step row id; the rows of an automated_test
\* section are automated rest steps, the others manual visual checks
ResolvedStep(steps, id) ==
    [step_id |-> id,
     section_id |-> steps[id].section_id,
     sort_order |-> steps[id].sort_order,
     step_type |-> IF SectionTypeOf(steps[id].section_id) = "automated_test"
                   THEN "rest" ELSE "visual_check",
     is_automated |-> SectionTypeOf(steps[id].section_id) = "automated_test",
     pass_criteria_type |-> "none",
     param_source |-> ParamSourceOf(id),
     param_overrides |-> EmptyParams]

\* resolve_procedure, step 6: the ResolvedSteps of the rows step_rows whose
\* condition holds; applies[id] is what evaluate answers for row id
ResolvedSteps(steps, step_rows, applies) ==
    LET Applies(id) == applies[id]
        passing == SelectSeq(step_rows, Applies)
    IN  [i \in DOMAIN passing |-> ResolvedStep(steps, passing[i])]

\* resolve_procedure, steps 5 and 6: the ResolvedSections, for the order
\* sections_rows of the section rows and the orders step_rows[id] of the
\* step rows of each section
ResolvedSections(sections, steps, sections_rows, step_rows, applies) ==
    LET Applies(id) == applies.sections[id]
        passing == SelectSeq(sections_rows, Applies)
    IN  [i \in DOMAIN passing |->
           [section_id |-> passing[i],
            sort_order |-> sections[passing[i]].sort_order,
            section_type |-> SectionTypeOf(passing[i]),
            steps |-> ResolvedSteps(steps, step_rows[passing[i]],
                                    applies.steps)]]

ProcedureIdle ==
    /\ tech_pub_sections = [id \in {} |-> 0]
    /\ procedure_steps = [id \in {} |-> 0]
    /\ age_months = 0
    /\ procedure = NotResolved
    /\ lastrowid = 0
    /\ created_tasks = <<>>
    /\ task_ids = NotReturned

\* the tables hold the sections and steps of a tech pub, the item is of a
\* battery six months old, and job_tasks holds the rows of earlier jobs
InitProcedure ==
    /\ tech_pub_sections \in SectionRows
    /\ procedure_steps \in StepRows
    /\ age_months = 6
    /\ procedure = NotResolved
    /\ lastrowid = 3
    /\ created_tasks = <<>>
    /\ task_ids = NotReturned

\* the active step rows of section sec, in the orders the SELECT may give
StepRowsOf(sec) ==
    OrderBySortOrder(procedure_steps,
                     {id \in StepIds :
                         /\ procedure_steps[id].section_id = sec
                         /\ procedure_steps[id].is_active = 1})

\* ProcedureResolver.resolve_procedure(work_order_item_id, service_type)
ResolveProcedure ==
    /\ procedure = NotResolved
    /\ \E sections_rows \in
            OrderBySortOrder(tech_pub_sections,
                             {id \in SectionIds :
                                 tech_pub_sections[id].is_active = 1}) :
       \E step_rows \in
            {f \in [SectionIds -> UNION {StepRowsOf(sec) : sec \in SectionIds}] :
                \A sec \in SectionIds : f[sec] \in StepRowsOf(sec)} :
       \E applies \in
            {[sections |->
                 [id \in SectionIds |->
                    RowApplies(tech_pub_sections[id], ItemContext(age_months))],
              steps |->
                 [id \in StepIds |->
                    RowApplies(procedure_steps[id], ItemContext(age_months))]]} :
          procedure' = ResolvedSections(tech_pub_sections, procedure_steps,
                                        sections_rows, step_rows, applies)
    /\ UNCHANGED <<tech_pub_sections, procedure_steps, age_months, lastrowid,
                   created_tasks, task_ids>>
    /\ UNCHANGED <<tcVars, orchVars, eepromVars, condVars, restVars, mgrVars>>

\* JobTaskFactory.create_tasks_for_job(work_job_id, procedure): each INSERT
\* takes the next rowid of job_tasks
CreateTasksForJob ==
    /\ procedure # NotResolved
    /\ task_ids = NotReturned
    /\ \E rows \in {create_tasks_for_job(procedure, 0)} :
           /\ created_tasks' = [k \in DOMAIN rows |->
                                  [id |-> lastrowid + k, row |-> rows[k]]]
           /\ task_ids' = [k \in DOMAIN rows |-> lastrowid + k]
           /\ lastrowid' = lastrowid + Len(rows)
    /\ UNCHANGED <<tech_pub_sections, procedure_steps, age_months, procedure>>
    /\ UNCHANGED <<tcVars, orchVars, eepromVars, condVars, restVars, mgrVars>>

NextProcedure ==
    \/ ResolveProcedure
    \/ CreateTasksForJob

(***************************************************************************)
(* Part 6: the age rule of build_test_params_from_eeprom                   *)
(* (services/eeprom_manager.py) and the post-charge rest that uses it      *)
(***************************************************************************)
NotBuilt == [not_built |-> TRUE]

\* cap_test_rest_before_min, age_rest_threshold_months and
\* age_rest_duration_min of the battery models at hand
RestConfigs ==
    [cap_test_rest_before_min : {60, 240, 1440},
     age_rest_threshold_months : {0, 12, 24},
     age_rest_duration_min : {0, 240, 1440}]

\* ages of the units, around the thresholds
BatteryAges == {0, 11, 12, 13, 23, 24, 25}

\* build_test_params_from_eeprom with the threshold test `>` for `>=`
build_test_params_from_eeprom_mut(cfg, age) ==
    LET needs_age_rest == age > cfg.age_rest_threshold_months
    IN  [rest_before_discharge_min |->
            IF /\ needs_age_rest
               /\ cfg.age_rest_duration_min > cfg.cap_test_rest_before_min
            THEN cfg.age_rest_duration_min
            ELSE cfg.cap_test_rest_before_min]

\* build_test_params_from_eeprom: the age-based rest
build_test_params_from_eeprom(cfg, age) ==
    LET needs_age_rest == age >= cfg.age_rest_threshold_months
    IN  [rest_before_discharge_min |->
            IF /\ needs_age_rest
               /\ cfg.age_rest_duration_min > cfg.cap_test_rest_before_min
            THEN cfg.age_rest_duration_min
            ELSE cfg.cap_test_rest_before_min]

RestIdle ==
    /\ model_config = [none |-> TRUE]
    /\ battery_age_months = 0
    /\ built_params = NotBuilt
    /\ rest_sec = <<>>

InitRest ==
    /\ model_config \in RestConfigs
    /\ battery_age_months \in BatteryAges
    /\ built_params = NotBuilt
    /\ rest_sec = <<>>

\* generate_test_plan calls build_test_params_from_eeprom
BuildTestParams ==
    /\ built_params = NotBuilt
    /\ built_params' = build_test_params_from_eeprom(model_config,
                                                     battery_age_months)
    /\ UNCHANGED <<model_config, battery_age_months, rest_sec>>
    /\ UNCHANGED <<tcVars, orchVars, eepromVars, condVars, procVars, mgrVars>>

\* run_automated_capacity_test, phase 5: the post-charge rest
PostChargeRest ==
    /\ built_params # NotBuilt
    /\ rest_sec = <<>>
    /\ rest_sec' = <<built_params.rest_before_discharge_min * 60>>
    /\ UNCHANGED <<model_config, battery_age_months, built_params>>
    /\ UNCHANGED <<tcVars, orchVars, eepromVars, condVars, procVars, mgrVars>>

NextRest == BuildTestParams \/ PostChargeRest

(***************************************************************************)
(* Part 7: the station manager (services/station_manager.py) with the      *)
(* I2C poller (services/i2c_poller.py) and the WebSocket broadcast         *)
(* (api/ws.py)                                                             *)
(*                                                                         *)
(* start_manager walks the twelve state machines once a second and hands   *)
(* each the data the poller cached for its station.  The only writer of    *)
(* that cache is _poll_all_stations.  A None of Python's eeprom_data is    *)
(* the empty sequence.                                                     *)
(***************************************************************************)
\* WebSocket clients connected at most
MaxClients == 1

\* the block of a programmed dock EEPROM
ModelBlock == EncodeBlock(BaseConfig)

\* what the XIAO module of a station may report: its status flags and the
\* EEPROM buffer it holds (REG_EEPROM_LEN is the length of that buffer)
DockInputs ==
    [temp_valid : BOOLEAN, eeprom_present : BOOLEAN, eeprom_busy : BOOLEAN,
     eeprom_buf : {<<>>, ModelBlock}]

\* _read_i2c_registers: the dict returned for the dock d; read_ok is whether
\* the block read of REG_EEPROM_BUF came back without raising
PollReading(d, read_ok) ==
    LET eeprom_len == Len(d.eeprom_buf)
    IN  [temp_valid |-> d.temp_valid,
         eeprom_present |-> d.eeprom_present,
         eeprom_busy |-> d.eeprom_busy,
         eeprom_length |-> eeprom_len,
         eeprom_data |->
            IF d.eeprom_present /\ ~d.eeprom_busy /\ eeprom_len > 0 /\ read_ok
            THEN SubSeq(d.eeprom_buf, 1, Min(64, eeprom_len))
            ELSE <<>>]

\* I2CPoller._poll_all_stations, the pass over station s: the dict read
\* replaces the cached one
PollDock(s) ==
    /\ \E read_ok \in BOOLEAN :
         station_data' = [station_data EXCEPT ![s] = PollReading(dock[s], read_ok)]
    /\ UNCHANGED <<request, events, op_count, work_jobs, test_reports, job_tasks,
                   running_jobs, orch, psu_on, load_on, station_state,
                   stop_seen, abort_seen, viol_age>>
    /\ UNCHANGED <<dock, battery_config, manager_running, active_connections>>
    /\ UNCHANGED <<tcVars, eepromVars, condVars, procVars, restVars>>

\* ws.broadcast_station_update: with no client it returns at once. With
\* clients it iterates the set active_connections across the awaits of
\* send_text; websocket_endpoint adds or discards a client meanwhile, and
\* the iteration then raises RuntimeError outside the try of the loop body
BroadcastOutcomes ==
    {[raised |-> FALSE, connections |-> active_connections]}
    \cup {[raised |-> TRUE, connections |-> c] :
            c \in IF active_connections = 0 THEN {}
                  ELSE {active_connections - 1, active_connections + 1}
                       \cap (0..MaxClients)}

\* StationStateMachine._transition_to(new_state) called by update: the state
\* is assigned first, then get_status is built and broadcast; an exception
\* of the broadcast leaves update and ends start_manager, whose loop has no
\* handler
TransitionTo(s, new_state) ==
    IF new_state = station_state[s]
    THEN UNCHANGED <<station_state, manager_running, active_connections>>
    ELSE /\ station_state' = [station_state EXCEPT ![s] = new_state]
         /\ \E o \in BroadcastOutcomes :
              /\ active_connections' = o.connections
              /\ manager_running' = ~o.raised

\* start_manager, one pass of its loop body for station s:
\* machine.update(i2c_poller.get_station_data(s)). _emergency_stop disables
\* the supply, then the load; either call may raise, which ends
\* start_manager as well
StationUpdate(s) ==
    /\ manager_running
    /\ LET i2c == station_data[s]
           state == station_state[s]
           lost == ~i2c.eeprom_present \/ ~i2c.temp_valid
           Stay == UNCHANGED <<station_state, manager_running,
                               active_connections>>
           Outputs == UNCHANGED <<psu_on, load_on, stop_seen>>
       IN  IF i2c = NoData
           THEN TransitionTo(s, "empty") /\ Outputs /\ UNCHANGED battery_config
           ELSE CASE state = "empty" ->
                     /\ IF i2c.eeprom_present /\ i2c.temp_valid
                        THEN TransitionTo(s, "dock_detected")
                        ELSE Stay
                     /\ Outputs /\ UNCHANGED battery_config
                  [] state = "dock_detected" ->
                     /\ Outputs
                     /\ IF ~i2c.eeprom_present
                        THEN TransitionTo(s, "empty") /\ UNCHANGED battery_config
                        ELSE IF i2c.temp_valid
                        THEN /\ battery_config' =
                                  [battery_config EXCEPT ![s] = ReadResult(i2c).ret]
                             /\ IF ReadResult(i2c).ret # NoConfig
                                THEN TransitionTo(s, "ready")
                                ELSE Stay
                        ELSE Stay /\ UNCHANGED battery_config
                  [] state = "ready" ->
                     /\ Outputs
                     /\ IF lost
                        THEN /\ TransitionTo(s, "empty")
                             /\ battery_config' =
                                  IF manager_running'
                                  THEN [battery_config EXCEPT ![s] = NoConfig]
                                  ELSE battery_config
                        ELSE Stay /\ UNCHANGED battery_config
                  [] state = "running" ->
                     /\ UNCHANGED battery_config
                     /\ IF lost
                        THEN \/ /\ psu_on' = [psu_on EXCEPT ![s] = FALSE]
                                /\ \/ /\ load_on' = [load_on EXCEPT ![s] = FALSE]
                                      /\ stop_seen' = [stop_seen EXCEPT ![s] = TRUE]
                                      /\ TransitionTo(s, "error")
                                   \/ /\ manager_running' = FALSE
                                      /\ UNCHANGED <<load_on, stop_seen,
                                                     station_state,
                                                     active_connections>>
                             \/ /\ manager_running' = FALSE
                                /\ UNCHANGED <<psu_on, load_on, stop_seen,
                                               station_state,
                                               active_connections>>
                        ELSE Stay /\ Outputs
                  [] state = "error" ->
                     /\ Outputs /\ UNCHANGED battery_config
                     /\ IF ~i2c.eeprom_present
                        THEN TransitionTo(s, "empty")
                        ELSE Stay
    /\ UNCHANGED <<request, events, op_count, work_jobs, test_reports, job_tasks,
                   running_jobs, orch, station_data, abort_seen, viol_age>>
    /\ UNCHANGED dock
    /\ UNCHANGED <<tcVars, eepromVars, condVars, procVars, restVars>>

\* StationManager.start_recipe: a station that is not READY is refused with
\* ValueError. A RecipeStartCommand has no work_job_id, so
\* getattr(command, 'work_job_id', None) is None and execute_job is not
\* called; the READY station goes to RUNNING, and get_status then reads the
\* supply, which may raise after the state was assigned
StartRecipe(s) ==
    /\ op_count < MaxOperatorActions
    /\ op_count' = op_count + 1
    /\ IF station_state[s] = "ready"
       THEN /\ station_state' = [station_state EXCEPT ![s] = "running"]
            /\ stop_seen' = [stop_seen EXCEPT ![s] = FALSE]
            /\ \E o \in BroadcastOutcomes :
                 active_connections' = o.connections
       ELSE UNCHANGED <<station_state, stop_seen, active_connections>>
    /\ UNCHANGED <<request, events, work_jobs, test_reports, job_tasks,
                   running_jobs, orch, psu_on, load_on, station_data,
                   abort_seen, viol_age>>
    /\ UNCHANGED <<dock, battery_config, manager_running>>
    /\ UNCHANGED <<tcVars, eepromVars, condVars, procVars, restVars>>

ManagerIdle ==
    /\ dock = [s \in Stations |-> [absent |-> TRUE]]
    /\ battery_config = [s \in Stations |-> NoConfig]
    /\ manager_running = TRUE
    /\ active_connections = 0

\* the service has started: nothing polled yet, every machine EMPTY
InitManager ==
    /\ OrchInitialWith(<<NoRequest, NoRequest>>, [s \in Stations |-> NoData])
    /\ dock \in [Stations -> DockInputs]
    /\ battery_config = [s \in Stations |-> NoConfig]
    /\ manager_running = TRUE
    /\ active_connections \in 0..MaxClients

NextManager ==
    \/ \E s \in Stations : PollDock(s)
    \/ \E s \in Stations : StationUpdate(s)
    \/ \E s \in Stations : StartRecipe(s)


SvcIdleButRest == EepromIdle /\ ConditionIdle /\ ProcedureIdle
SvcIdle == SvcIdleButRest /\ RestIdle /\ ManagerIdle

vars == <<tcVars, orchVars, svcVars>>

\* the phase controller alone: no job is started
OrchIdle == OrchInitial(<<NoRequest, NoRequest>>)
\* the orchestrator alone: the controller of the legacy path stays idle
TCIdle == InitTC /\ params = CHOOSE p \in TestParameters : TRUE

InitSpecTC == OrchIdle /\ SvcIdle /\ InitTC
InitSpecOrch == TCIdle /\ SvcIdle /\ InitOrch
InitSpecEeprom ==
    TCIdle /\ OrchIdle /\ ConditionIdle /\ ProcedureIdle /\ RestIdle /\ ManagerIdle
    /\ InitEeprom
InitSpecCondition ==
    TCIdle /\ OrchIdle /\ EepromIdle /\ ProcedureIdle /\ RestIdle /\ ManagerIdle
    /\ InitCondition
InitSpecProcedure ==
    TCIdle /\ OrchIdle /\ EepromIdle /\ ConditionIdle /\ RestIdle /\ ManagerIdle
    /\ InitProcedure
InitSpecRest ==
    TCIdle /\ OrchIdle /\ SvcIdleButRest /\ ManagerIdle /\ InitRest
InitSpecManager == TCIdle /\ SvcIdleButRest /\ RestIdle /\ InitManager

SpecTC == InitSpecTC /\ [][NextTC]_vars
SpecOrch == InitSpecOrch /\ [][NextOrch]_vars
SpecEeprom == InitSpecEeprom /\ [][NextEeprom]_vars
SpecCondition == InitSpecCondition /\ [][NextCondition]_vars
SpecRest == InitSpecRest /\ [][NextRest]_vars
SpecProcedure == InitSpecProcedure /\ [][NextProcedure]_vars
\* the poller polls every station each I2C_POLL_INTERVAL and start_manager
\* updates every machine each second for as long as it runs
FairManager ==
    \A s \in Stations : WF_vars(PollDock(s)) /\ WF_vars(StationUpdate(s))
SpecManager == InitSpecManager /\ [][NextManager]_vars /\ FairManager

(***************************************************************************)
(* Properties of the phase controller                                      *)
(***************************************************************************)

\* C1: if a sample taken during cap_discharging has a temperature above
\* discharge_temp_max_c, the run ends in phase aborted, and both the supply
\* and the load have received a disable call when the function returns, even
\* if a disable call raised.
C1_OverTempEndsAborted ==
    (pc = "returned" /\ overTempInCap) =>
        /\ result.phase = ABORTED
        /\ current_phase = ABORTED
        /\ shutdown_calls = {"psu", "load"}

\* C2: whatever the outcome of run_automated_capacity_test, both the supply
\* and the load have been sent a disable call by the time it returns; a
\* disable that raises on one device does not prevent the call on the other.
C2_ShutdownBothDevices ==
    pc = "returned" => shutdown_calls = {"psu", "load"}

\* C2 witness: a run has returned after the supply's disable raised in the
\* final shutdown (its output is still on) and the load was still called.
C2_Witness ==
    /\ pc = "returned"
    /\ psu_output
    /\ disableThrew
    /\ "load" \in shutdown_calls

\* C11: within one run of run_automated_capacity_test, a step taken while
\* abort_requested is set leaves it set and leaves abort_reason as it is,
\* whoever requests an abort again.
C11_AbortFlagMonotonic ==
    [][(pc \notin {"idle", "returned"} /\ abort_requested) =>
          (abort_requested' /\ abort_reason' = abort_reason)]_vars

\* C11 witness: during a run, a second abort request has been made after the
\* safety monitor recorded its reason, and that reason is still the one kept.
C11_Witness ==
    /\ pc \notin {"idle", "returned"}
    /\ abort_calls = 2
    /\ abort_requested
    /\ abort_reason = "Temperature sensor lost during test"

\* C12: when the abort flag is set while the controller is in a non-terminal
\* phase, the run does not move to complete_pass or complete_fail: its next
\* terminal phase is aborted.
C12_AbortFlagEndsAborted ==
    [][(abort_requested /\ current_phase \notin TerminalPhases) =>
          current_phase' \notin {COMPLETE_PASS, COMPLETE_FAIL}]_vars

C3_AbortReachesAborted ==
    \A j \in Jobs :
        (abort_seen[j] /\ j \notin running_jobs) =>
            /\ work_jobs[j].status = "aborted"
            /\ \A n \in DOMAIN job_tasks[j] :
                  job_tasks[j][n].status \notin NonTerminal
            /\ ~psu_on[work_jobs[j].station_id]
            /\ ~load_on[work_jobs[j].station_id]

\* C4: when a sample of an automated step has violated the step's
\* temperature ceiling and a further sampling cycle has passed, the job is
\* aborted and the station's outputs are off.
C4_ViolationAbortsWithinCycle ==
    \A j \in Jobs :
        viol_age[j] = 2 =>
            /\ work_jobs[j].status = "aborted"
            /\ ~psu_on[work_jobs[j].station_id]
            /\ ~load_on[work_jobs[j].station_id]

\* C5: the result the orchestrator determines when it finishes a job, which
\* it then writes as overall_result, is incomplete if any task of the job is
\* not terminal, else fail if any task, top-level or nested, has step_result
\* fail, else pass.
C5_OverallResultOverAllTasks ==
    [][LET over_all_tasks(rows) ==
               IF \E n \in DOMAIN rows : rows[n].status \in NonTerminal
               THEN "incomplete"
               ELSE IF \E n \in DOMAIN rows : rows[n].step_result = "fail"
               THEN "fail"
               ELSE "pass"
       IN \A j \in Jobs :
             (orch[j].pc = "determine" /\ orch'[j].pc = "job_complete") =>
                orch'[j].overall = over_all_tasks(job_tasks[j])]_vars

\* C6: a step that starts task m of a job (marks it in_progress or
\* awaiting_input) is taken only when every task with a smaller task_number
\* is terminal and no task with a larger task_number is in_progress or
\* awaiting_input.
C6_SequentialTasks ==
    [][\A j \in Jobs : \A m \in DOMAIN job_tasks[j] :
          (/\ m \in DOMAIN job_tasks'[j]
           /\ job_tasks'[j][m].status \in {"in_progress", "awaiting_input"}
           /\ job_tasks'[j][m].status # job_tasks[j][m].status) =>
              /\ \A n \in 1..(m - 1) : job_tasks[j][n].status \in Terminal
              /\ \A n \in (m + 1)..Len(job_tasks[j]) :
                    job_tasks[j][n].status
                        \notin {"in_progress", "awaiting_input"}]_vars

\* C7: no two executing jobs are inside an automated step on the same
\* station at the same time.
C7_OneJobPerStation ==
    \A j1, j2 \in Jobs :
        (j1 # j2 /\ orch[j1].pc \in InnerTry /\ orch[j2].pc \in InnerTry) =>
            orch[j1].station # orch[j2].station

\* C8: a completed job that has a task whose wait for a submission timed out
\* has overall_result incomplete or fail, never pass.
C8_TimeoutNeverPass ==
    \A j \in Jobs :
        (/\ work_jobs[j].status = "completed"
         /\ \E n \in DOMAIN job_tasks[j] : job_tasks[j][n].timed_out) =>
            work_jobs[j].overall_result \in {"incomplete", "fail"}

\* C9: a job's status only moves pending -> in_progress -> completed, failed
\* or aborted; a completed, failed or aborted job keeps its status and its
\* overall_result, and completed_at is written at most once. A job that is
\* ended before it was marked in_progress is let through.
C9_JobStatusLifecycle ==
    [][LET JobStatusMoves ==
               {<<"absent", "pending">>, <<"pending", "in_progress">>,
                <<"pending", "failed">>, <<"pending", "aborted">>,
                <<"in_progress", "completed">>, <<"in_progress", "failed">>,
                <<"in_progress", "aborted">>}
       IN \A j \in Jobs :
          /\ \/ work_jobs'[j].status = work_jobs[j].status
             \/ <<work_jobs[j].status, work_jobs'[j].status>> \in JobStatusMoves
          /\ work_jobs[j].status \in {"completed", "failed", "aborted"} =>
                work_jobs'[j].overall_result = work_jobs[j].overall_result
          /\ work_jobs'[j].completed_at_writes <= 1]_vars

\* C10: every change of a task's status is a move of the task state machine;
\* a task becomes awaiting_input only from in_progress.
C10_TaskStatusMachine ==
    [][LET TaskStatusMoves ==
               {<<"pending", "skipped">>, <<"pending", "in_progress">>,
                <<"pending", "completed">>, <<"pending", "failed">>,
                <<"pending", "aborted">>,
                <<"in_progress", "awaiting_input">>,
                <<"in_progress", "completed">>, <<"in_progress", "failed">>,
                <<"in_progress", "aborted">>,
                <<"awaiting_input", "completed">>,
                <<"awaiting_input", "failed">>,
                <<"awaiting_input", "skipped">>,
                <<"awaiting_input", "aborted">>}
       IN \A j \in Jobs : \A n \in DOMAIN job_tasks[j] :
          n \in DOMAIN job_tasks'[j] =>
             \/ job_tasks'[j][n].status = job_tasks[j][n].status
             \/ <<job_tasks[j][n].status, job_tasks'[j][n].status>>
                   \in TaskStatusMoves]_vars

\* C14: for every job, a task_awaiting_input broadcast of a task is preceded
\* by the task_progress broadcast of that task, every task that is
\* in_progress has had its task_progress broadcast, and a job that has
\* finished as completed has had its job_completed broadcast.
C14_EventsEmitted ==
    \A j \in Jobs :
        /\ \A n \in DOMAIN job_tasks[j] :
              /\ <<"task_awaiting_input", n>> \in events[j] =>
                    <<"task_progress", n>> \in events[j]
              /\ job_tasks[j][n].status = "in_progress" =>
                    <<"task_progress", n>> \in events[j]
        /\ (work_jobs[j].status = "completed" /\ j \notin running_jobs) =>
              <<"job_completed", 0>> \in events[j]

(***************************************************************************)
(* Properties of the dock EEPROM codec                                     *)
(***************************************************************************)
\* C15: the codec round-trips.  A configuration write_battery_config has
\* serialized decodes from its block to the same configuration, and a
\* well-formed block (full length, format version 2, the CRC of its header,
\* reserved bytes zero, flags 0 or 1, strings NUL-terminated and padded with
\* NULs, fields a BatteryConfig accepts) is the block its decoded
\* configuration encodes to.
C15_CodecRoundTrips ==
    /\ (config # NoConfig /\ write_arg # NoBlock) =>
          DecodeBlock(write_arg) = config
    /\ (config = NoConfig /\ write_arg # NoBlock) =>
          LET x == i2c_data.eeprom_data
              Padded(s) == \E n \in 1..Len(s) :
                              /\ \A i \in 1..(n - 1) : s[i] # 0
                              /\ \A i \in n..Len(s) : s[i] = 0
              WellFormed ==
                  /\ x[1] = 2
                  /\ CrcMatches(x)
                  /\ \A i \in {6, 23, 24, 42, 51, 52, 58, 71, 72, 79, 80} :
                        x[i] = 0
                  /\ x[41] \in {0, 1} /\ x[57] \in {0, 1}
                  /\ Padded(SubSeq(x, 81, 112))
                  /\ Padded(SubSeq(x, 113, 144))
                  /\ Padded(SubSeq(x, 145, 152))
          IN  WellFormed => write_arg = x

\* C16: read_battery_config answers None when the dock reports no EEPROM
\* or the cached buffer is shorter than 152 bytes; a stored CRC that differs
\* from the one computed over bytes 0x00..0x4B is logged as a warning and
\* changes nothing in what is returned, which is the parsed configuration
\* whenever the fields are ones a BatteryConfig accepts.
C16_ReadNoneOrParsed ==
    read_ret # NotCalled =>
       /\ (i2c_data = NoData \/ ~i2c_data.eeprom_present
              \/ Len(i2c_data.eeprom_data) < 152) => read_ret = NoConfig
       /\ (/\ i2c_data # NoData
           /\ i2c_data.eeprom_present
           /\ Len(i2c_data.eeprom_data) >= 152
           /\ ~CrcMatches(i2c_data.eeprom_data)) =>
              LET d == i2c_data.eeprom_data
              IN  /\ "warning: crc mismatch" \in read_log
                  /\ read_ret = ParseFields(d) \/ ~FieldsValid(ParseFields(d))
                  /\ read_ret = DecodeBlock(WithCrc(d))
                        \/ ParseFields(WithCrc(d)) # ParseFields(d)

\* a block with another CRC than its header's was read and parsed
C16_Witness ==
    /\ read_ret # NotCalled
    /\ read_ret # NoConfig
    /\ "warning: crc mismatch" \in read_log
    /\ ~CrcMatches(i2c_data.eeprom_data)

(***************************************************************************)
(* Properties of the condition evaluator                                   *)
(***************************************************************************)
\* C17: evaluate answers false, and does not raise, for an unknown
\* condition kind and for a malformed or unparseable expression or value:
\* a custom expression that is no text, holds no comparison operator or
\* lacks an operand, and an age threshold that is neither an integer nor
\* the name of a context entry.
C17_UnknownOrMalformedIsFalse ==
    eval_ret # <<>> =>
       LET ct == condition.condition_type
           v == condition.condition_value
           Ops == {ComparisonOps[i] : i \in 1..Len(ComparisonOps)}
           Unknown == Truthy(ct)
                        /\ StrOf(ct) \notin EvaluatorKinds \cup {"always"}
           LacksOperand(s) ==
               \E op \in Ops :
                  \/ SubSeq(s, 1, Len(op)) = op
                  \/ SubSeq(s, Len(s) - Len(op) + 1, Len(s)) = op
           MalformedExpression ==
               /\ ct = PyStr("custom_expression")
               /\ \/ v.t # "str"
                  \/ \A op \in Ops : ~Contains(v.s, op)
                  \/ LacksOperand(Strip(v.s))
           UnparseableThreshold ==
               /\ ct = PyStr("age_threshold")
               /\ IntOf(v) = <<>>
               /\ v.t # "str" \/ v.s \notin DOMAIN context
       IN  (Unknown \/ MalformedExpression \/ UnparseableThreshold) =>
              eval_ret = <<"False">>

\* C18: for an age_threshold condition on a numeric context entry, evaluate
\* answers true iff context[key] >= threshold, the boundary included, where
\* the threshold is the numeric value of the condition value or, when the
\* value is not parseable as a number, the numeric context entry it names.
C18_AgeThresholdInclusive ==
    (/\ eval_ret # <<>>
     /\ condition.condition_type = PyStr("age_threshold")
     /\ condition.condition_key.t = "str"
     /\ condition.condition_key.s \in DOMAIN context
     /\ IsNumber(context[condition.condition_key.s])) =>
       LET v == condition.condition_value
           actual == FloatOf(context[condition.condition_key.s])[1]
           numeric == FloatOf(v)
           Names == v.t = "str" /\ v.s \in DOMAIN context
                       /\ IsNumber(context[v.s])
           threshold == IF numeric # <<>> THEN numeric[1]
                        ELSE FloatOf(context[v.s])[1]
       IN  (numeric # <<>> \/ Names) =>
              (eval_ret = <<"True">> <=> actual >= threshold)

(***************************************************************************)
(* Properties of the procedure resolver and the task factory               *)
(***************************************************************************)
\* C19: a resolved procedure holds exactly the active steps of the active
\* sections whose section condition and own condition evaluate true, each
\* once, and lists them in an order consistent with
\* (section.sort_order, step.sort_order): a step listed before another never
\* has the greater pair.
C19_ResolvedExactlyApplicableInOrder ==
    procedure # NotResolved =>
        LET ctx == ItemContext(age_months)
            applicable ==
                {id \in StepIds :
                    /\ procedure_steps[id].is_active = 1
                    /\ tech_pub_sections[procedure_steps[id].section_id].is_active = 1
                    /\ RowApplies(tech_pub_sections[procedure_steps[id].section_id], ctx)
                    /\ RowApplies(procedure_steps[id], ctx)}
            listed == {p \in (DOMAIN procedure) \X StepIds :
                         p[2] \in DOMAIN procedure[p[1]].steps}
            StepAt(p) == procedure[p[1]].steps[p[2]]
            Before(p, q) == p[1] < q[1] \/ (p[1] = q[1] /\ p[2] < q[2])
            KeyLeq(p, q) ==
                \/ procedure[p[1]].sort_order < procedure[q[1]].sort_order
                \/ /\ procedure[p[1]].sort_order = procedure[q[1]].sort_order
                   /\ StepAt(p).sort_order <= StepAt(q).sort_order
        IN  /\ {StepAt(p).step_id : p \in listed} = applicable
            /\ \A p, q \in listed : p # q => StepAt(p).step_id # StepAt(q).step_id
            /\ \A p \in listed : StepAt(p).section_id = procedure[p[1]].section_id
            /\ \A p, q \in listed : Before(p, q) => KeyLeq(p, q)

\* C20: create_tasks_for_job numbers the rows it inserts 1, 2, ..., n in the
\* order it inserts them, the step rows are the steps of the procedure in
\* section order then step order, a parent row comes immediately before the
\* steps of its section, and the ids returned are the ids of the rows in
\* that order.
C20_TaskNumbersContiguous ==
    task_ids # NotReturned =>
        LET n == Len(created_tasks)
            Row(k) == created_tasks[k].row
            IsStepRow(t) == t.row.step_id # 0
            step_rows == SelectSeq(created_tasks, IsStepRow)
            listed == {p \in (DOMAIN procedure) \X StepIds :
                         p[2] \in DOMAIN procedure[p[1]].steps}
            \* position of step p[2] of section p[1] among all the steps
            Position(p) == Cardinality({q \in listed :
                              q[1] < p[1] \/ (q[1] = p[1] /\ q[2] <= p[2])})
        IN  /\ \A k \in 1..n : Row(k).task_number = k
            /\ Len(step_rows) = Cardinality(listed)
            /\ \A p \in listed :
                  /\ step_rows[Position(p)].row.section_id = procedure[p[1]].section_id
                  /\ step_rows[Position(p)].row.step_id =
                        procedure[p[1]].steps[p[2]].step_id
            /\ \A k \in 1..n :
                  Row(k).step_id = 0 =>
                      /\ k < n
                      /\ Row(k + 1).step_id # 0
                      /\ Row(k + 1).section_id = Row(k).section_id
                      /\ \A i \in 1..n :
                            (i # k /\ Row(i).section_id = Row(k).section_id)
                               => (i > k /\ Row(i).parent_task_id = Row(k).task_number)
            /\ Len(task_ids) = n
            /\ \A k \in 1..n : task_ids[k] = created_tasks[k].id
            /\ \A i, k \in 1..n : i < k => task_ids[i] < task_ids[k]

\* a parent task and the two steps of its inspection section were created,
\* followed by the step of a second section
C20_Witness ==
    /\ task_ids # NotReturned
    /\ Len(created_tasks) = 4
    /\ created_tasks[1].row.step_id = 0
    /\ created_tasks[2].row.parent_task_id = 1
    /\ created_tasks[4].row.parent_task_id = 0
    /\ created_tasks[4].row.task_number = 4

\* C21: a single failed voltage or current read in a monitoring loop is
\* logged and the loop goes on with the next sample: a pass of a charge or
\* discharge loop taken with no abort requested and with no disable call
\* raising does not end the run in complete_fail
C21_FailedReadContinues ==
    [][(/\ pc \in ChargePcs \cup DischargePcs
        /\ sub = "loop"
        /\ ~abort_requested
        /\ ~disableThrew')
       => current_phase' # COMPLETE_FAIL]_vars

\* C22: when the temperature validity of a station is lost while a job
\* executes on it, the job is aborted and goes no further. A monitoring pass
\* of a step that recorded a valid temperature earlier, taken after the
\* validity was lost, does not continue the step on its regular path
C22_LostTempValidityAborts ==
    [][\A j \in Jobs :
         (/\ orch[j].pc = "monitor"
          /\ orch[j].temperature_max_c > 0
          /\ ~station_data[orch[j].station].temp_valid
          /\ orch'[j].pc # "none"
          /\ orch'[j].elapsed = orch[j].elapsed + 1)
         => orch'[j].pc \notin {"monitor", "charge_psu_off", "auto_update"}]_vars

\* the positions of _run_job that await a call to the supply or the load
HardwareCalls == {"charge_load_off", "charge_psu_on", "charge_psu_off",
                  "discharge",
                  "rest_psu_off", "rest_load_off", "ic_psu", "ic_load",
                  "abort_psu", "abort_load", "fail_psu", "fail_load"}

\* this step is a call to the supply or the load of job j that raises
HardwareRaises(j) ==
    /\ orch[j].pc \in HardwareCalls
    /\ ~orch[j].cancel
    /\ IF orch[j].pc \in OuterHandlers
       THEN orch'[j].pc = "none"
       ELSE orch'[j].pc = "fail_psu"

\* every hardware call of the step returns
HardwareReturns == \A j \in Jobs : ~HardwareRaises(j)

\* a step of the coroutine of job j, the delivery of a cancel included
JobStep(j) ==
    \/ DeliverCancel(j) \/ Begin(j) \/ RunStart(j) \/ MarkInProgress(j)
    \/ AutoTime(j) \/ ChargeLoadOff(j) \/ ChargePsuOn(j) \/ ChargePsuOff(j)
    \/ DischargeStep(j) \/ DischargeSetLoad(j)
    \/ RestPsuOff(j) \/ RestLoadOff(j) \/ MonitorSample(j)
    \/ AutoUpdate(j) \/ CancelPsuOff(j) \/ CancelLoadOff(j)
    \/ CancelTaskAborted(j) \/ MarkAwaiting(j) \/ WaitManual(j)
    \/ WaitTimeout(j) \/ ChildrenLoad(j) \/ ChildAwaiting(j) \/ ChildWait(j)
    \/ ChildTimeout(j) \/ ParentComplete(j) \/ Determine(j) \/ JobComplete(j)
    \/ CreateTestReport(j) \/ AbortPsuOff(j) \/ AbortLoadOff(j)
    \/ AbortUpdate(j) \/ FailPsuOff(j) \/ FailLoadOff(j) \/ FailUpdate(j)

\* the orchestrator with hardware calls that return, on an event loop that
\* runs every coroutine that is ready: sleeps end, awaited calls complete
NextOrchReturns == NextOrch /\ HardwareReturns
SpecOrchFair ==
    /\ InitSpecOrch
    /\ [][NextOrchReturns]_vars
    /\ \A j \in Jobs : WF_vars(JobStep(j) /\ HardwareReturns)

\* C23: every job started with execute_job eventually has a terminal job
\* status (completed, failed or aborted), whatever the operator does or does
\* not submit, when hardware calls return
C23_StartedJobTerminates ==
    \A j \in Jobs :
       (j \in running_jobs)
          ~> (work_jobs[j].status \in {"completed", "failed", "aborted"})

\* two automated jobs on two stations: running, failing and aborting them
StationScenarios ==
    {<<Request(1, ProcRest), Request(2, ProcCharge)>>,
     <<Request(1, ProcDischarge), Request(2, ProcCharge)>>}
InitStations == \E requests \in StationScenarios : OrchInitial(requests)
NextStations ==
    \/ \E j \in Jobs : StartJob(j)
    \/ \E j \in Jobs : AbortJob(j)
    \/ \E j \in Jobs : DeliverCancel(j)
    \/ \E j \in Jobs : Begin(j)
    \/ \E j \in Jobs : RunStart(j)
    \/ \E j \in Jobs : MarkInProgress(j)
    \/ \E j \in Jobs : AutoTime(j)
    \/ \E j \in Jobs : ChargeLoadOff(j)
    \/ \E j \in Jobs : ChargePsuOn(j)
    \/ \E j \in Jobs : ChargePsuOff(j)
    \/ \E j \in Jobs : DischargeStep(j)
    \/ \E j \in Jobs : DischargeSetLoad(j)
    \/ \E j \in Jobs : RestPsuOff(j)
    \/ \E j \in Jobs : RestLoadOff(j)
    \/ \E j \in Jobs : MonitorSample(j)
    \/ \E j \in Jobs : AutoUpdate(j)
    \/ \E j \in Jobs : CancelPsuOff(j)
    \/ \E j \in Jobs : CancelLoadOff(j)
    \/ \E j \in Jobs : CancelTaskAborted(j)
    \/ \E j \in Jobs : Determine(j)
    \/ \E j \in Jobs : JobComplete(j)
    \/ \E j \in Jobs : CreateTestReport(j)
    \/ \E j \in Jobs : AbortPsuOff(j)
    \/ \E j \in Jobs : AbortLoadOff(j)
    \/ \E j \in Jobs : AbortUpdate(j)
    \/ \E j \in Jobs : FailPsuOff(j)
    \/ \E j \in Jobs : FailLoadOff(j)
    \/ \E j \in Jobs : FailUpdate(j)
InitSpecStations == TCIdle /\ SvcIdle /\ InitStations
SpecStations == InitSpecStations /\ [][NextStations]_vars

\* C24: a step of the coroutine of a job on one station (running, failing
\* or aborting it) leaves the supply output and the load input of every
\* other station as they were, and leaves the work_jobs row and the job_tasks
\* rows of every job on another station as they were
C24_OtherStationsUntouched ==
    [][\A j \in Jobs :
         (orch[j].pc # "none" /\ orch'[j] # orch[j])
         => /\ \A s \in Stations \ {orch[j].station} :
                  psu_on'[s] = psu_on[s] /\ load_on'[s] = load_on[s]
            /\ \A k \in Jobs :
                  work_jobs[k].station_id # orch[j].station
                  => /\ work_jobs'[k] = work_jobs[k]
                     /\ job_tasks'[k] = job_tasks[k]]_vars

\* the job on station 1 has failed or was aborted in its handler while the
\* job on station 2 charges with its supply on
C24_Witness ==
    /\ work_jobs[1].station_id = 1
    /\ work_jobs[1].status \in {"failed", "aborted"}
    /\ work_jobs[2].station_id = 2
    /\ work_jobs[2].status = "in_progress"
    /\ orch[2].pc = "monitor"
    /\ psu_on[2]

\* C25: on the abort and failure paths the two disables are guarded one by
\* one, so a disable that raises neither skips the other disable nor the
\* marking: when the coroutine of a job leaves _handle_abort or
\* _handle_failure without having been cancelled there, the job is marked
\* aborted or failed and none of its tasks is left non-terminal
C25_HandlersMarkDespiteFailedDisable ==
    [][\A j \in Jobs :
         (/\ orch[j].pc \in OuterHandlers
          /\ ~orch[j].cancel
          /\ orch'[j].pc = "none")
         => /\ work_jobs'[j].status \in {"aborted", "failed"}
            /\ \A n \in DOMAIN job_tasks'[j] :
                  job_tasks'[j][n].status \notin NonTerminal]_vars

\* C26: in a run that is not aborted every change of phase is the next one of
\* pre_discharge, pre_rest, [reconditioning iff needs_reconditioning],
\* charging, post_charge_rest, cap_discharging, [charging,
\* fast_discharge_rest, fast_discharging iff fast_discharge_enabled],
\* [post_partial_charge iff post_charge_enabled] and then complete_pass or
\* complete_fail, with complete_pass iff neither the capacity result nor the
\* fast-discharge result failed
C26_PhaseOrder ==
    [][LET final == IF cap_result' # "failed" /\ fast_result' # "failed"
                    THEN COMPLETE_PASS ELSE COMPLETE_FAIL
           after_cap == IF params.fast_discharge_enabled THEN CHARGING
                        ELSE IF params.post_charge_enabled
                        THEN POST_PARTIAL_CHARGE ELSE final
           after_fast == IF params.post_charge_enabled
                         THEN POST_PARTIAL_CHARGE ELSE final
           successor ==
              CASE current_phase \in TerminalPhases -> PRE_DISCHARGE
                [] current_phase = PRE_DISCHARGE -> PRE_REST
                [] current_phase = PRE_REST ->
                      IF params.needs_reconditioning
                      THEN RECONDITIONING ELSE CHARGING
                [] current_phase = RECONDITIONING -> CHARGING
                [] current_phase = CHARGING ->
                      IF cap_result = "none"
                      THEN POST_CHARGE_REST ELSE FAST_DISCHARGE_REST
                [] current_phase = POST_CHARGE_REST -> CAP_DISCHARGING
                [] current_phase = CAP_DISCHARGING -> after_cap
                [] current_phase = FAST_DISCHARGE_REST -> FAST_DISCHARGING
                [] current_phase = FAST_DISCHARGING -> after_fast
                [] current_phase = POST_PARTIAL_CHARGE -> final
       IN (current_phase' # current_phase /\ current_phase' # ABORTED)
          => current_phase' = successor]_vars

\* the run with fast discharge on which the instruments report errors
SafetyParameters ==
    {p \in TestParameters :
        /\ p.fast_discharge_enabled
        /\ ~p.needs_reconditioning /\ ~p.post_charge_enabled
        /\ p.absolute_min_voltage_mv = 4500
        /\ p.cap_test_pass_min_minutes = 0
        /\ p.cap_test_pass_min_capacity_pct = 0
        /\ p.cap_test_voltage_check_time_min = 0
        /\ p.fast_discharge_pass_min_minutes = 0}
NextSafety ==
    \/ NextTC
    \/ \E d \in Instruments : InstrumentError(d)
InitSpecSafety == OrchIdle /\ SvcIdle /\ InitTC /\ params \in SafetyParameters
SpecSafety == InitSpecSafety /\ [][NextSafety]_vars

\* C27: a pass of the safety monitor in a non-terminal phase that finds the
\* temperature sensor not valid, or an error in the error queue of the supply
\* or of the load, sets the abort flag. The pass that finds a queued error is
\* the step that takes it out of the queue
C27_MonitorViolationSetsAbort ==
    [][(/\ safety_task
        /\ current_phase \notin TerminalPhases
        /\ \E d \in Instruments : scpi_errors[d] /\ ~scpi_errors'[d])
       => abort_requested']_vars

\* C28: a sample of the capacity discharge below absolute_min_voltage_mv
\* switches the load input off and ends the run in phase aborted, with a
\* reason that names the floor and the measured voltage, whatever the end
\* voltage and the absolute minimum are. The sample looked at is the one the
\* voltage check records in checkpoint_mv; a sample that also exceeds the
\* temperature limit may give the temperature as the reason, and a disable
\* that raises is left aside
C28_BelowAbsoluteMinAborts ==
    [][(/\ pc = "cap_discharging" /\ sub = "loop"
        /\ ~abort_requested
        /\ ~voltage_check_done /\ voltage_check_done'
        /\ checkpoint_mv' < params.absolute_min_voltage_mv
        /\ ~disableThrew')
       => /\ current_phase' = ABORTED
          /\ ~load_input'
          /\ \/ result'.abort_reason =
                   AbsoluteMinReason(params.absolute_min_voltage_mv,
                                     checkpoint_mv')
             \/ overTempInCap']_vars

\* C29: a capacity discharge that runs to cap_test_max_duration_min without
\* the voltage reaching the end voltage stops: once input_off has returned
\* the load is off, the pass/fail checks have given passed or failed, and a
\* run on which no abort was requested is not aborted and is in its next
\* phase (the charge before the fast discharge, the post partial charge, or
\* the final evaluation)
C29_MaxDurationStops ==
    [][(/\ pc = "cap_discharging" /\ sub = "exit"
        /\ elapsed = MaxIters
        /\ pc' # pc
        /\ ~abort_requested
        /\ ~disableThrew')
       => /\ ~load_input'
          /\ cap_result' \in {"passed", "failed"}
          /\ current_phase' # ABORTED
          /\ pc' = IF params.fast_discharge_enabled THEN "fd_charging"
                   ELSE IF params.post_charge_enabled
                   THEN "post_partial_charge" ELSE "evaluate"
          /\ current_phase' = IF params.fast_discharge_enabled THEN CHARGING
                              ELSE IF params.post_charge_enabled
                              THEN POST_PARTIAL_CHARGE ELSE CAP_DISCHARGING]_vars

\* the capacity discharge integrated every pass up to the maximum duration,
\* the load is off, the result is evaluated and the run is in its next phase
C29_Witness ==
    /\ pc \in {"fd_charging", "post_partial_charge", "evaluate"}
    /\ ah_integrated >= 1900 * (MaxIters - 1)
    /\ cap_result \in {"passed", "failed"}
    /\ ~load_input
    /\ ~abort_requested
    /\ current_phase \in {CHARGING, POST_PARTIAL_CHARGE, CAP_DISCHARGING}

\* C30: an automated top-level task of type charge, discharge, rest or
\* wait_temp that no abort request cancels and none of whose calls to the
\* supply or the load raises leaves _execute_automated_step with status
\* completed and the step_result its pass criteria give on the accumulated
\* measurements, with the supply (charge) or the load (discharge) off
C30_AutomatedStepCompletes ==
    [][\A j \in Jobs :
        LET n == CurTask(j)
            type == job_tasks[j][n].step_type
        IN (/\ orch[j].pc \in InnerTry
            /\ orch'[j].pc \notin InnerTry
            /\ ~orch[j].cancel
            /\ ~HardwareRaises(j)
            /\ type \in {"charge", "discharge", "rest", "wait_temp"})
           => /\ job_tasks'[j][n].status = "completed"
              /\ job_tasks'[j][n].step_result =
                   evaluate_pass_criteria(job_tasks[j][n].pass_criteria_type,
                                          orch[j].temperature_max_c)
              /\ type = "charge" => ~psu_on'[orch[j].station]
              /\ type = "discharge" => ~load_on'[orch[j].station]]_vars

\* C31: when _run_job has processed every task without a cancel, the job
\* ends completed with the overall_result it determined and with exactly one
\* test_reports row carrying that overall_result; a job that ends aborted or
\* failed has no test_reports row
C31_CompletedJobHasOneReport ==
    [][\A j \in Jobs :
        /\ (/\ orch[j].pc = "report"
            /\ ~orch[j].cancel
            /\ orch'[j].pc # "report")
           => /\ orch'[j].pc = "none"
              /\ work_jobs'[j].status = "completed"
              /\ work_jobs'[j].overall_result = orch[j].overall
              /\ test_reports'[j] = <<orch[j].overall>>
        /\ (/\ orch'[j].pc = "none"
            /\ work_jobs'[j].status \in {"aborted", "failed"})
           => test_reports'[j] = <<>>]_vars

C33_RuntimeMarkerResolved ==
    [][\A j \in Jobs :
        LET row == job_tasks[j][CurTask(j)]
            from_previous ==
                \E s \in DOMAIN request[j].procedure :
                  \E k \in DOMAIN request[j].procedure[s].steps :
                    LET step == request[j].procedure[s].steps[k]
                    IN /\ request[j].procedure[s].section_id = row.section_id
                       /\ step.step_id = row.step_id
                       /\ step.param_source = "previous_step"
        IN (/\ orch[j].pc = "mark_in_progress"
            /\ orch'[j].pc = "auto_time"
            /\ from_previous)
           => /\ "_resolve_at_runtime" \in DOMAIN row.params
              /\ "_resolve_at_runtime" \notin DOMAIN orch'[j].params]_vars

\* C34 as stated: the post-charge rest lasts the model's rest-before-discharge
\* period, replaced by the age-based rest duration exactly when the unit's
\* age exceeds the model's age threshold
C34_AgeRestWhenOlderThanThreshold ==
    rest_sec # <<>> =>
        rest_sec[1] =
            60 * (IF battery_age_months > model_config.age_rest_threshold_months
                  THEN model_config.age_rest_duration_min
                  ELSE model_config.cap_test_rest_before_min)

\* C34: the post-charge rest lasts the model's rest-before-discharge period,
\* replaced by the age-based rest duration exactly when the unit's age is at
\* least the model's age threshold and the age-based duration is the longer
C34_AgeRestExtends ==
    rest_sec # <<>> =>
        rest_sec[1] =
            60 * (IF /\ battery_age_months
                          >= model_config.age_rest_threshold_months
                     /\ model_config.age_rest_duration_min
                          > model_config.cap_test_rest_before_min
                  THEN model_config.age_rest_duration_min
                  ELSE model_config.cap_test_rest_before_min)

\* a unit exactly as old as the threshold rested the longer age-based period
C34_Witness ==
    /\ rest_sec # <<>>
    /\ battery_age_months = model_config.age_rest_threshold_months
    /\ battery_age_months > 0
    /\ model_config.age_rest_duration_min
          > model_config.cap_test_rest_before_min
    /\ rest_sec[1] = 60 * model_config.age_rest_duration_min

\* C35: a job_tasks row whose status is completed, failed, skipped or
\* aborted keeps that status in every later step, whoever takes it
C35_TerminalStatusFinal ==
    [][\A j \in Jobs : \A n \in DOMAIN job_tasks[j] :
          job_tasks[j][n].status \in Terminal
             => /\ n \in DOMAIN job_tasks'[j]
                /\ job_tasks'[j][n].status = job_tasks[j][n].status]_vars

C37_NoReEnableAfterStop ==
    [][\A s \in Stations :
          (stop_seen[s] /\ stop_seen'[s])
             => /\ psu_on'[s] => psu_on[s]
                /\ load_on'[s] => load_on[s]]_vars

\* C38: when the failure handling that an unexpected exception started
\* ends, the outputs of the job's station are off, the job is failed with
\* overall_result fail, every task that was pending, in_progress or
\* awaiting_input is failed, and every task that was terminal keeps its
\* status and its step_result
C38_FailureHandled ==
    [][\A j \in Jobs :
        (/\ orch[j].pc \in {"fail_psu", "fail_load", "fail_db"}
         /\ orch'[j].pc = "none")
        => /\ ~psu_on'[orch[j].station]
           /\ ~load_on'[orch[j].station]
           /\ work_jobs'[j].status = "failed"
           /\ work_jobs'[j].overall_result = "fail"
           /\ \A n \in DOMAIN job_tasks[j] :
                IF job_tasks[j][n].status \in NonTerminal
                THEN job_tasks'[j][n].status = "failed"
                ELSE /\ job_tasks'[j][n].status = job_tasks[j][n].status
                     /\ job_tasks'[j][n].step_result
                           = job_tasks[j][n].step_result]_vars

\* C39: a station in EMPTY whose dock reports a present EEPROM that is not
\* busy and holds a valid 152-byte model block, with a valid temperature,
\* eventually is in READY with battery_config set
C39_DockedStationBecomesReady ==
    \A s \in Stations :
        (/\ station_state[s] = "empty"
         /\ dock[s].temp_valid
         /\ dock[s].eeprom_present
         /\ ~dock[s].eeprom_busy
         /\ Len(dock[s].eeprom_buf) = 152
         /\ ReadResult([eeprom_present |-> TRUE,
                        eeprom_data |-> dock[s].eeprom_buf]).ret # NoConfig)
        ~> (station_state[s] = "ready" /\ battery_config[s] # NoConfig)

\* C40: start_manager keeps running: whatever happens while one station is
\* handled, the loop that updates every station's state machine has not
\* ended
C40_ManagerKeepsUpdating == manager_running

====
